---- MODULE Spec2Model ----
(***************************************************************************)
(* Verification model of wine-chat2: the SQL safety gate (sql_guard.py),   *)
(* the storage entry point WineDB.execute_safe_query (db.py), the turn     *)
(* loop WineAssistant.ask with its deterministic annotation handler        *)
(* (assistant.py), the annotation store (public_records_db.py) and the     *)
(* per-session context store of the web front end (app.py) and of the      *)
(* console front end (console_chat.py).                                    *)
(*                                                                         *)
(* Texts are sequences of lexemes.  A lexeme stands for a literal piece of *)
(* text: a word (a run of \w characters), a white-space character, a       *)
(* punctuation character or a comment marker.  Two adjacent word lexemes   *)
(* are one longer word ("DROP" followed by "x" is the word DROPx).         *)
(***************************************************************************)
EXTENDS Integers, Sequences, FiniteSets, TLC

VARIABLES
    gate_pc,        \* position of the gate scenario: "start", "tool", "csv"
    raw_sql,        \* tool_call argument "query" proposed by the backend
    max_sql_rows,   \* WineAssistant.max_sql_rows (constructor argument)
    storage_log,    \* every text handed to conn.execute by execute_safe_query
    tool_result,    \* result of WineAssistant._tool_response
    sql_queries,    \* meta["sql_queries"] of the turn
    csv_errors,     \* number of exports that raised in console main
    capabilities_text, \* WineAssistant.capabilities_text (the file's text)
    client,         \* WineAssistant.client is set (package and API key present)
    public_records, \* the table public_records of the annotation store
    console_pc,     \* console main: "input", "asking", "crashed"; "off"
    context_state,  \* console main: context_state
    history,        \* console main: history
    console_text,   \* console main: the utterance of the turn in progress
    ask_locals,     \* the locals of the call of ask in progress
    turns,          \* number of turns started in console main
    last_turn,      \* the last finished turn: utterance, context before, result
    requests,       \* app.py chat: the requests in progress, one for each worker
    store_call,     \* the last call of PublicRecordsDB.add_record and its outcome
    candidate_call, \* rows given to the candidate extraction and what it returned
    position_call,  \* utterance and list size given to _extract_position_refs
    stores          \* app.py: CHAT_STORE and CONTEXT_STORE, by session id

gate_vars == <<gate_pc, raw_sql, max_sql_rows, storage_log, tool_result,
               sql_queries, csv_errors>>

console_vars == <<capabilities_text, client, public_records, console_pc,
                  context_state, history, console_text, ask_locals, turns, last_turn>>

web_vars == <<requests>>

unit_vars == <<store_call, candidate_call, position_call, stores>>

vars == <<gate_vars, console_vars, web_vars, unit_vars>>

-----------------------------------------------------------------------------
(* Bounds *)

MaxBodyLen == 3

MaxTurns == 2
MaxRequests == 3
MaxStoreCalls == 2
MaxCandidateRows == 3
MaxPositionWords == 3
MaxListSize == 5
MaxAppends == 26
MaxSessionRequests == 2

-----------------------------------------------------------------------------
(* Lexemes *)

WhiteLexemes == {" ", "nl"}

\* Word lexemes a raw query of the model can hold (the \w runs).
WordLexemes ==
    {"x", "SELECT", "select", "WITH", "with", "FROM", "AS", "_result", "LIMIT",
     "DROP", "drop", "Insert", "insert", "5"}

IsWord(l) == l \notin WhiteLexemes \union {";", "(", ")", "*", "--", "/*", "*/"}

\* str.lower() on one lexeme.
LowerLexeme(l) ==
    CASE l = "SELECT" -> "select"
      [] l = "WITH" -> "with"
      [] l = "FROM" -> "from"
      [] l = "AS" -> "as"
      [] l = "LIMIT" -> "limit"
      [] l = "DROP" -> "drop"
      [] l = "Insert" -> "insert"
      [] OTHER -> l

Lower(s) == [i \in 1..Len(s) |-> LowerLexeme(s[i])]

\* str.strip(): white space removed at both ends.
RECURSIVE LStrip(_)
LStrip(s) ==
    IF s # <<>> /\ Head(s) \in WhiteLexemes THEN LStrip(Tail(s)) ELSE s

RECURSIVE RStrip(_)
RStrip(s) ==
    IF s # <<>> /\ s[Len(s)] \in WhiteLexemes
    THEN RStrip(SubSeq(s, 1, Len(s) - 1))
    ELSE s

Strip(s) == LStrip(RStrip(s))

\* str.rstrip(";"): every trailing ';' is removed.
RECURSIVE RStripSemicolons(_)
RStripSemicolons(s) ==
    IF s # <<>> /\ s[Len(s)] = ";"
    THEN RStripSemicolons(SubSeq(s, 1, Len(s) - 1))
    ELSE s

-----------------------------------------------------------------------------
(* sql_guard.py *)

FORBIDDEN_KEYWORDS ==
    <<"insert", "update", "delete", "drop", "alter", "create", "attach",
      "detach", "pragma", "vacuum", "reindex", "analyze", "replace", "truncate">>

\* Index of the first "*/" after position i, 0 when there is none.
RECURSIVE FindBlockEnd(_, _)
FindBlockEnd(s, i) ==
    IF i > Len(s) THEN 0
    ELSE IF s[i] = "*/" THEN i
    ELSE FindBlockEnd(s, i + 1)

\* re.sub(r"/\*.*?\*/", "", sql, flags=re.S)
RECURSIVE StripBlockComments(_)
StripBlockComments(s) ==
    IF s = <<>> THEN <<>>
    ELSE IF Head(s) = "/*" /\ FindBlockEnd(s, 2) # 0
         THEN StripBlockComments(SubSeq(s, FindBlockEnd(s, 2) + 1, Len(s)))
         ELSE <<Head(s)>> \o StripBlockComments(Tail(s))

\* The rest of the line from s on: everything up to the next newline is dropped.
RECURSIVE SkipToNewline(_)
SkipToNewline(s) ==
    IF s = <<>> \/ Head(s) = "nl" THEN s ELSE SkipToNewline(Tail(s))

\* re.sub(r"--[^\n]*", "", sql)
RECURSIVE StripLineComments(_)
StripLineComments(s) ==
    IF s = <<>> THEN <<>>
    ELSE IF Head(s) = "--"
         THEN StripLineComments(SkipToNewline(Tail(s)))
         ELSE <<Head(s)>> \o StripLineComments(Tail(s))

_strip_comments(sql) == StripLineComments(StripBlockComments(sql))

Rejected(err, kw) == [ok |-> FALSE, err |-> err, keyword |-> kw, sql |-> <<>>]
Accepted(sql) == [ok |-> TRUE, err |-> "", keyword |-> "", sql |-> sql]

\* Variant of _normalize_sql that drops one trailing ';' only.
normalize_sql_one_terminator(sql) ==
    LET one_statement(single) ==
            IF \E i \in 1..Len(single) : single[i] = ";"
            THEN Rejected("multi", "")
            ELSE Accepted(single)
        non_empty(stripped) ==
            IF stripped = <<>> THEN Rejected("empty", "")
            ELSE one_statement(Strip(IF stripped[Len(stripped)] = ";"
                                     THEN SubSeq(stripped, 1, Len(stripped) - 1)
                                     ELSE stripped))
    IN  non_empty(Strip(_strip_comments(sql)))

_normalize_sql(sql) ==
    LET one_statement(single) ==
            IF \E i \in 1..Len(single) : single[i] = ";"
            THEN Rejected("multi", "")
            ELSE Accepted(single)
        non_empty(stripped) ==
            IF stripped = <<>> THEN Rejected("empty", "")
            ELSE one_statement(Strip(RStripSemicolons(stripped)))
    IN  non_empty(Strip(_strip_comments(sql)))

\* lower.startswith(word + " ")
StartsWithWord(lower, word) ==
    Len(lower) >= 2 /\ lower[1] = word /\ lower[2] = " "

\* re.search(rf"\b{keyword}\b", lower)
SearchKeyword(lower, keyword) ==
    \E i \in 1..Len(lower) :
        /\ lower[i] = keyword
        /\ (i = 1 \/ ~IsWord(lower[i - 1]))
        /\ (i = Len(lower) \/ ~IsWord(lower[i + 1]))

\* The denylist loop of validate_read_only_sql: the first keyword of
\* FORBIDDEN_KEYWORDS found raises, naming it.
DenylistScan(sql, keyword) ==
    IF keyword # "" THEN Rejected("forbidden", keyword) ELSE Accepted(sql)

\* The first keyword of FORBIDDEN_KEYWORDS found, "" when none is.
RECURSIVE FirstForbidden(_, _)
FirstForbidden(lower, k) ==
    IF k > Len(FORBIDDEN_KEYWORDS) THEN ""
    ELSE IF SearchKeyword(lower, FORBIDDEN_KEYWORDS[k]) THEN FORBIDDEN_KEYWORDS[k]
    ELSE FirstForbidden(lower, k + 1)

\* Variant of validate_read_only_sql without the denylist scan.
validate_without_denylist(sql) ==
    LET checked(normalized, lower) ==
            IF ~normalized.ok THEN normalized
            ELSE IF ~(StartsWithWord(lower, "select") \/ StartsWithWord(lower, "with"))
                 THEN Rejected("not_select", "")
            ELSE Accepted(normalized.sql)
        lowered(normalized) == checked(normalized, Lower(normalized.sql))
    IN  lowered(_normalize_sql(sql))

\* Variant of validate_read_only_sql that scans the denylist before the
\* SELECT/WITH check.
validate_denylist_first(sql) ==
    LET select_check(scanned, lower) ==
            IF ~scanned.ok THEN scanned
            ELSE IF ~(StartsWithWord(lower, "select") \/ StartsWithWord(lower, "with"))
                 THEN Rejected("not_select", "")
            ELSE scanned
        checked(normalized, lower) ==
            IF ~normalized.ok THEN normalized
            ELSE select_check(DenylistScan(normalized.sql, FirstForbidden(lower, 1)),
                              lower)
        lowered(normalized) == checked(normalized, Lower(normalized.sql))
    IN  lowered(_normalize_sql(sql))

validate_read_only_sql(sql) ==
    LET checked(normalized, lower) ==
            IF ~normalized.ok THEN normalized
            ELSE IF ~(StartsWithWord(lower, "select") \/ StartsWithWord(lower, "with"))
                 THEN Rejected("not_select", "")
            ELSE DenylistScan(normalized.sql, FirstForbidden(lower, 1))
        lowered(normalized) == checked(normalized, Lower(normalized.sql))
    IN  lowered(_normalize_sql(sql))

Max(a, b) == IF a >= b THEN a ELSE b

OuterOpen == <<"SELECT", " ", "*", " ", "FROM", " ", "(">>
OuterClose == <<")", " ", "AS", " ", "_result", " ", "LIMIT", " ">>

\* f"SELECT * FROM ({sql}) AS _result LIMIT {max_rows}"
enforce_limit(sql, max_rows) ==
    OuterOpen \o sql \o OuterClose \o <<ToString(Max(1, max_rows))>>

build_safe_sql(sql, max_rows) ==
    LET limited(validated) ==
            IF validated.ok THEN Accepted(enforce_limit(validated.sql, max_rows))
            ELSE validated
    IN  limited(validate_read_only_sql(sql))

-----------------------------------------------------------------------------
(* db.py: WineDB.execute_safe_query.  The result carries the storage log as *)
(* the call leaves it; db_ok tells whether conn.execute raised.             *)

execute_safe_query(raw, max_rows, log, db_ok) ==
    LET execute(safe) ==
            IF ~safe.ok
            THEN [ok |-> FALSE, error |-> "SQLValidationError", err |-> safe.err,
                  keyword |-> safe.keyword, safe_sql |-> <<>>, log |-> log]
            ELSE IF ~db_ok
            THEN [ok |-> FALSE, error |-> "Exception", err |-> "", keyword |-> "",
                  safe_sql |-> <<>>, log |-> Append(log, safe.sql)]
            ELSE [ok |-> TRUE, error |-> "", err |-> "", keyword |-> "",
                  safe_sql |-> safe.sql, log |-> Append(log, safe.sql)]
    IN  execute(build_safe_sql(raw, max_rows))

\* The shapes of a tool call's argument string: text that json.loads rejects,
\* JSON that is not an object (a list, a number, ...), a JSON object.
JsonShapes == {"malformed", "not_object", "object"}

\* assistant.py: WineAssistant._tool_response.  tool_call_args is
\* [json |-> shape, query |-> the value of "query" ("" when absent)].  The
\* result field raised tells that args.get raised AttributeError out of the
\* call (json.loads returned a value that is not a dict).
_tool_response(tool_call_args, rows_cap, log, db_ok) ==
    LET failed(error, raised) ==
            [ok |-> FALSE, error |-> error, err |-> "", keyword |-> "",
             safe_sql |-> <<>>, log |-> log, raised |-> raised]
        executed(r) ==
            [ok |-> r.ok, error |-> r.error, err |-> r.err, keyword |-> r.keyword,
             safe_sql |-> r.safe_sql, log |-> r.log, raised |-> FALSE]
        respond(raw_query) ==
            IF raw_query = <<>> THEN failed("empty_query", FALSE)
            ELSE executed(execute_safe_query(raw_query, rows_cap, log, db_ok))
    IN  IF tool_call_args.json = "malformed" THEN failed("invalid_json", FALSE)
        ELSE IF tool_call_args.json = "not_object" THEN failed("AttributeError", TRUE)
        ELSE respond(Strip(tool_call_args.query))

\* console_chat.py: dedupe_keep_order
RECURSIVE dedupe_keep_order(_)
dedupe_keep_order(items) ==
    IF items = <<>> THEN <<>>
    ELSE LET keep(rest, key) ==
                 IF key = <<>> \/ \E i \in 1..Len(rest) : rest[i] = key
                 THEN rest
                 ELSE Append(rest, key)
         IN  keep(dedupe_keep_order(SubSeq(items, 1, Len(items) - 1)),
                  Strip(items[Len(items)]))

CSV_MAX_ROWS == 50000

\* console_chat.py main, CSV export loop: every recorded query is executed
\* again; the first exception ends the loop.  fail_at is the index of the
\* query on which storage raises (0: none).
RECURSIVE CsvExport(_, _, _, _)
CsvExport(queries, i, log, fail_at) ==
    IF i > Len(queries) THEN [log |-> log, raised |-> FALSE]
    ELSE LET continue(r) ==
                 IF r.ok THEN CsvExport(queries, i + 1, r.log, fail_at)
                 ELSE [log |-> r.log, raised |-> TRUE]
         IN  continue(execute_safe_query(queries[i], CSV_MAX_ROWS, log, i # fail_at))

-----------------------------------------------------------------------------
(* db.py: the catalog table and the look-ups by id, by name and by text.    *)
(* A row keeps the columns the candidate normalizer reads: card_key,        *)
(* wine_name and url ("" stands for NULL or an absent key).                 *)

\* The rows of the catalog table in the order the look-ups sort them.
CatalogRows ==
    << [wine_id |-> "", card_key |-> "w1", wine_name |-> "merlot", url |-> "u1"],
       [wine_id |-> "", card_key |-> "w2", wine_name |-> "merlot", url |-> "u2"],
       [wine_id |-> "", card_key |-> "w3", wine_name |-> "riesling", url |-> "u3"] >>

NoRow == [wine_id |-> "", card_key |-> "", wine_name |-> "", url |-> ""]

\* Index of the first catalog row from k on that satisfies Match, 0 if none.
RECURSIVE FirstRow(_, _)
FirstRow(Match(_), k) ==
    IF k > Len(CatalogRows) THEN 0
    ELSE IF Match(CatalogRows[k]) THEN k
    ELSE FirstRow(Match, k + 1)

RowOrNone(k) == IF k = 0 THEN NoRow ELSE CatalogRows[k]

wine_exists(wine_id) ==
    /\ wine_id # ""
    /\ \E k \in 1..Len(CatalogRows) :
           CatalogRows[k].card_key = wine_id \/ CatalogRows[k].url = wine_id

get_wine_brief(wine_id) ==
    IF wine_id = "" THEN NoRow
    ELSE RowOrNone(FirstRow(LAMBDA row : row.card_key = wine_id \/ row.url = wine_id, 1))

\* The card_key of the first row of that name, "" when there is none.
resolve_wine_id_from_fields(wine_name) ==
    IF wine_name = "" THEN ""
    ELSE RowOrNone(FirstRow(LAMBDA row : row.wine_name = wine_name, 1)).card_key

\* reference is a sequence of words; a row matches when each word occurs in it.
search_wines_by_text(reference, limit) ==
    IF reference = <<>> THEN <<>>
    ELSE LET first(rows) == SubSeq(rows, 1, Max(1, IF limit < 50 THEN limit ELSE 50))
             capped(rows) == IF Len(rows) > Max(1, IF limit < 50 THEN limit ELSE 50)
                             THEN first(rows) ELSE rows
         IN  capped(SelectSeq(CatalogRows,
                              LAMBDA row : \A i \in 1..Len(reference) :
                                               reference[i] = row.wine_name))

-----------------------------------------------------------------------------
(* public_records_db.py: the annotation store.  records is the table        *)
(* public_records in insertion order.                                       *)

GUEST == "guest"

\* str.strip() and str.lower() on the names and ids the store is given.
StripText(value) ==
    CASE value = " w1 " -> "w1"
      [] value = " " -> ""
      [] OTHER -> value

LowerText(value) ==
    CASE value = "Like" -> "like"
      [] value = "NOTE" -> "note"
      [] OTHER -> value

_normalize_user(value) == IF StripText(value) = "" THEN GUEST ELSE StripText(value)

\* The name of the type; add_record raises when it is neither like nor note.
_normalize_record_type(value) == LowerText(StripText(value))

_normalize_content(value) == Strip(value)

\* add_record raised PublicRecordError: nothing is stored.
StoreRejected(error, records) == [ok |-> FALSE, error |-> error, records |-> records]

\* Lines 87-100: the insert of one row.
StoreInserted(records, normalized_user, normalized_type, normalized_content, normalized_wine_id) ==
    [ok |-> TRUE, error |-> "",
     records |-> Append(records, [id |-> Len(records) + 1,
                                  user |-> normalized_user,
                                  record_type |-> normalized_type,
                                  content |-> normalized_content,
                                  wine_id |-> normalized_wine_id])]

\* An insert that first removes the records of the same user, type and wine.
StoreReplaced(records, normalized_user, normalized_type, normalized_content, normalized_wine_id) ==
    StoreInserted(SelectSeq(records, LAMBDA r : ~(/\ r.user = normalized_user
                                                   /\ r.record_type = normalized_type
                                                   /\ r.wine_id = normalized_wine_id)),
                  normalized_user, normalized_type, normalized_content,
                  normalized_wine_id)

\* The store accepts an id the catalog does not hold.
add_record_without_catalog_check(user, record_type, content, wine_id, records) ==
    LET checked(normalized_user, normalized_type, normalized_content, normalized_wine_id) ==
        IF normalized_type \notin {"like", "note"}
        THEN StoreRejected("record_type", records)
        ELSE IF normalized_wine_id = "" THEN StoreRejected("wine_id_required", records)
        ELSE IF normalized_type = "note" /\ normalized_content = <<>>
             THEN StoreRejected("content_required", records)
        ELSE StoreInserted(records, normalized_user, normalized_type,
                 IF normalized_type = "like" /\ normalized_content = <<>>
                 THEN <<"1">> ELSE normalized_content,
                 normalized_wine_id)
    IN  checked(_normalize_user(user), _normalize_record_type(record_type),
                _normalize_content(content), StripText(wine_id))

\* The text of a note is tested as it was given, blanks included.
add_record_note_untrimmed(user, record_type, content, wine_id, records) ==
    LET checked(normalized_user, normalized_type, normalized_content, normalized_wine_id) ==
        IF normalized_type \notin {"like", "note"}
        THEN StoreRejected("record_type", records)
        ELSE IF normalized_wine_id = "" THEN StoreRejected("wine_id_required", records)
        ELSE IF ~wine_exists(normalized_wine_id)
             THEN StoreRejected("wine_id_not_found", records)
        ELSE IF normalized_type = "note" /\ content = <<>>
             THEN StoreRejected("content_required", records)
        ELSE StoreInserted(records, normalized_user, normalized_type,
                 IF normalized_type = "like" /\ normalized_content = <<>>
                 THEN <<"1">> ELSE normalized_content,
                 normalized_wine_id)
    IN  checked(_normalize_user(user), _normalize_record_type(record_type),
                _normalize_content(content), StripText(wine_id))

\* A like keeps an empty content.
add_record_like_without_default(user, record_type, content, wine_id, records) ==
    LET checked(normalized_user, normalized_type, normalized_content, normalized_wine_id) ==
        IF normalized_type \notin {"like", "note"}
        THEN StoreRejected("record_type", records)
        ELSE IF normalized_wine_id = "" THEN StoreRejected("wine_id_required", records)
        ELSE IF ~wine_exists(normalized_wine_id)
             THEN StoreRejected("wine_id_not_found", records)
        ELSE IF normalized_type = "note" /\ normalized_content = <<>>
             THEN StoreRejected("content_required", records)
        ELSE StoreInserted(records, normalized_user, normalized_type,
                 normalized_content,
                 normalized_wine_id)
    IN  checked(_normalize_user(user), _normalize_record_type(record_type),
                _normalize_content(content), StripText(wine_id))

\* A record replaces the earlier ones of its user, type and wine.
add_record_replacing(user, record_type, content, wine_id, records) ==
    LET checked(normalized_user, normalized_type, normalized_content, normalized_wine_id) ==
        IF normalized_type \notin {"like", "note"}
        THEN StoreRejected("record_type", records)
        ELSE IF normalized_wine_id = "" THEN StoreRejected("wine_id_required", records)
        ELSE IF ~wine_exists(normalized_wine_id)
             THEN StoreRejected("wine_id_not_found", records)
        ELSE IF normalized_type = "note" /\ normalized_content = <<>>
             THEN StoreRejected("content_required", records)
        ELSE StoreReplaced(records, normalized_user, normalized_type,
                 IF normalized_type = "like" /\ normalized_content = <<>>
                 THEN <<"1">> ELSE normalized_content,
                 normalized_wine_id)
    IN  checked(_normalize_user(user), _normalize_record_type(record_type),
                _normalize_content(content), StripText(wine_id))

\* add_record: the checks in the order of lines 77-85, then the insert.
add_record(user, record_type, content, wine_id, records) ==
    LET checked(normalized_user, normalized_type, normalized_content, normalized_wine_id) ==
        IF normalized_type \notin {"like", "note"}
        THEN StoreRejected("record_type", records)
        ELSE IF normalized_wine_id = "" THEN StoreRejected("wine_id_required", records)
        ELSE IF ~wine_exists(normalized_wine_id)
             THEN StoreRejected("wine_id_not_found", records)
        ELSE IF normalized_type = "note" /\ normalized_content = <<>>
             THEN StoreRejected("content_required", records)
        ELSE StoreInserted(records, normalized_user, normalized_type,
                 IF normalized_type = "like" /\ normalized_content = <<>>
                 THEN <<"1">> ELSE normalized_content,
                 normalized_wine_id)
    IN  checked(_normalize_user(user), _normalize_record_type(record_type),
                _normalize_content(content), StripText(wine_id))

-----------------------------------------------------------------------------
(* assistant.py: answer texts and the sanitizer.  An answer is a sequence   *)
(* of lines, a line a sequence of lexemes: "url" is an http(s) link, "www"  *)
(* a www. address, "domain" a bare domain name, "provenance" a phrase that  *)
(* announces the search sources, "link" the word for "link"; every other    *)
(* lexeme is ordinary text.                                                 *)

LinkLexemes == {"url", "www", "domain"}

DEFAULT_ANSWER == << <<"ready_to_answer">> >>

IsNotLink(l) == l \notin LinkLexemes

IsNotLinkWord(l) == l # "link"

\* The loop over cleaned.splitlines() of _sanitize_public_answer.
RECURSIVE SanitizeLines(_, _)
SanitizeLines(todo, lines) ==
    IF todo = <<>> THEN lines
    ELSE LET kept(line) ==
                 IF line # <<>> THEN Append(lines, line)
                 ELSE IF lines # <<>> /\ lines[Len(lines)] # <<>>
                      THEN Append(lines, <<>>)
                 ELSE lines
         IN  IF \E i \in 1..Len(Head(todo)) : Head(todo)[i] = "provenance"
             THEN SanitizeLines(Tail(todo), lines)
             ELSE SanitizeLines(Tail(todo), kept(SelectSeq(Head(todo), IsNotLinkWord)))

\* "\n".join(lines).strip(): a blank last line is dropped.
StripBlankEnd(lines) ==
    IF lines # <<>> /\ lines[Len(lines)] = <<>>
    THEN SubSeq(lines, 1, Len(lines) - 1)
    ELSE lines

_sanitize_public_answer(text) ==
    LET finish(cleaned) == IF cleaned = <<>> THEN DEFAULT_ANSWER ELSE cleaned
    IN  finish(StripBlankEnd(SanitizeLines(
            [i \in 1..Len(text) |-> SelectSeq(text[i], IsNotLink)], <<>>)))

-----------------------------------------------------------------------------
(* assistant.py: utterances.  An utterance is the sequence of its words,    *)
(* numbers and punctuation marks, written in Latin transliteration; single  *)
(* blanks separate them.  A marker test of the code ("zametk" in q) is the  *)
(* test that some word of the utterance is one of the words of the model's  *)
(* vocabulary that hold the marker.                                         *)

\* str.lower() of _normalize_text on one word.
NormalizeWord(w) ==
    CASE w = "Layk" -> "layk"
      [] w = "HELP" -> "help"
      [] w = "Zametka" -> "zametka"
      [] OTHER -> w

_normalize_text(text) == [i \in 1..Len(text) |-> NormalizeWord(text[i])]

HasWord(q, words) == \E i \in 1..Len(q) : q[i] \in words

\* q[i], q[i + 1] are the two words of a marker "a b".
HasPair(q, a, b) == \E i \in 1..(Len(q) - 1) : q[i] \in a /\ q[i + 1] \in b

\* The runs of digits of the model.  The run of twenty nines is a number
\* above sys.maxsize; HUGE stands for its value and LIST_MAX for sys.maxsize
\* (only the order of the numbers matters to the code).
HUGE == 1000000000
LIST_MAX == 999999000

DigitTokens == {"0", "1", "2", "3", "4", "5", "99999999999999999999"}

\* int(token) for a run of digits.
DigitValue(t) ==
    CASE t = "1" -> 1 [] t = "2" -> 2 [] t = "3" -> 3 [] t = "4" -> 4
      [] t = "5" -> 5 [] t = "99999999999999999999" -> HUGE [] OTHER -> 0

\* _ordinal_word_to_int: 0 stands for None.  "pervye" (the first ...) has
\* the stem of "first" too.
_ordinal_word_to_int(w) ==
    CASE w \in {"pervoe", "pervye"} -> 1
      [] w = "vtoroe" -> 2
      [] w = "tretye" -> 3
      [] OTHER -> 0

\* _count_word_to_int: the first stem of the list the word starts with.
\* "tridcat" (thirty) starts with the stem of three; "dve" (two, feminine)
\* starts with no stem of the list.
_count_word_to_int(w) ==
    CASE w = "dva" -> 2
      [] w \in {"tri", "tridcat"} -> 3
      [] OTHER -> 0

_position_token_to_int(t) ==
    IF t \in DigitTokens THEN DigitValue(t) ELSE _ordinal_word_to_int(t)

_count_token_to_int(t) ==
    IF t \in DigitTokens THEN DigitValue(t) ELSE _count_word_to_int(t)

\* Words made of letters only (the class [a-ya-] of the code's patterns).
IsLetterWord(t) == t \notin DigitTokens \union {":", ",", ";", "-", ".."}

ListWords == {"poziciya", "pozicii", "nomer", "spiska", "variant", "punkt"}

_is_all_positions_phrase(q) ==
    \/ HasPair(q, {"vse"}, {"pozicii", "varianty"})
    \/ q \in {<<"vse">>, <<"vse", "ih">>, <<"vsem">>, <<"vseh">>}
    \/ HasWord(q, {"vse"}) /\ HasWord(q, ListWords \union {"varianty"})

_has_list_reference_phrase(q) ==
    \/ HasWord(q, ListWords \union {"varianty"})
    \/ HasPair(q, {"vino", "vina"}, {"1"})

\* list(range(...)) of _expand_range raises OverflowError when the range
\* holds more than sys.maxsize values.
RangeTooLong(start, end) ==
    /\ start > 0 /\ end > 0
    /\ (IF start <= end THEN end - start ELSE start - end) + 1 > LIST_MAX

\* _expand_range that counts upward from the smaller end.
expand_range_ascending(start, end) ==
    IF start <= 0 \/ end <= 0 THEN <<>>
    ELSE IF start <= end THEN [i \in 1..(end - start + 1) |-> start + i - 1]
    ELSE [i \in 1..(start - end + 1) |-> end + i - 1]

_expand_range(start, end) ==
    IF start <= 0 \/ end <= 0 THEN <<>>
    ELSE IF start <= end THEN [i \in 1..(end - start + 1) |-> start + i - 1]
    ELSE [i \in 1..(start - end + 1) |-> start - i + 1]

RECURSIVE _dedupe_ints(_)
_dedupe_ints(values) ==
    IF values = <<>> THEN <<>>
    ELSE LET keep(out, v) ==
                 IF \E i \in 1..Len(out) : out[i] = v THEN out ELSE Append(out, v)
         IN  keep(_dedupe_ints(SubSeq(values, 1, Len(values) - 1)),
                  values[Len(values)])

\* The numbers left as they are, whatever the size of the list.
WithinList_unfiltered(nums, max_n) == nums

\* nums = [n for n in nums if 1 <= n <= max_n], applied when max_n is known.
WithinList(nums, max_n) ==
    IF max_n > 0 THEN SelectSeq(nums, LAMBDA n : 1 <= n /\ n <= max_n) ELSE nums

\* re.findall of "<digits> (po|do) <digits>" or "<digits> (-|..) <digits>".
RECURSIVE NumericRanges(_, _, _)
NumericRanges(q, i, separators) ==
    IF i + 2 > Len(q) THEN <<>>
    ELSE IF q[i] \in DigitTokens /\ q[i + 1] \in separators /\ q[i + 2] \in DigitTokens
         THEN _expand_range(DigitValue(q[i]), DigitValue(q[i + 2]))
                  \o NumericRanges(q, i + 3, separators)
         ELSE NumericRanges(q, i + 1, separators)

\* Some range the same findall yields is too long for _expand_range.
RECURSIVE NumericRangeRaises(_, _, _)
NumericRangeRaises(q, i, separators) ==
    IF i + 2 > Len(q) THEN FALSE
    ELSE IF q[i] \in DigitTokens /\ q[i + 1] \in separators /\ q[i + 2] \in DigitTokens
         THEN \/ RangeTooLong(DigitValue(q[i]), DigitValue(q[i + 2]))
              \/ NumericRangeRaises(q, i + 3, separators)
         ELSE NumericRangeRaises(q, i + 1, separators)

\* re.findall of "(s|ot) <word> (po|do) <word>", both words read as positions.
RECURSIVE WordRanges(_, _)
WordRanges(q, i) ==
    IF i + 3 > Len(q) THEN <<>>
    ELSE IF q[i] \in {"s", "ot"} /\ q[i + 2] \in {"po", "do"}
              /\ q[i + 1] \notin {":", ",", ";", ".."} /\ q[i + 3] \notin {":", ",", ";", ".."}
         THEN (IF _position_token_to_int(q[i + 1]) > 0 /\ _position_token_to_int(q[i + 3]) > 0
               THEN _expand_range(_position_token_to_int(q[i + 1]),
                                  _position_token_to_int(q[i + 3]))
               ELSE <<>>) \o WordRanges(q, i + 4)
         ELSE WordRanges(q, i + 1)

\* Some range the same findall yields is too long for _expand_range.
RECURSIVE WordRangeRaises(_, _)
WordRangeRaises(q, i) ==
    IF i + 3 > Len(q) THEN FALSE
    ELSE IF q[i] \in {"s", "ot"} /\ q[i + 2] \in {"po", "do"}
              /\ q[i + 1] \notin {":", ",", ";", ".."} /\ q[i + 3] \notin {":", ",", ";", ".."}
         THEN \/ RangeTooLong(_position_token_to_int(q[i + 1]),
                              _position_token_to_int(q[i + 3]))
              \/ WordRangeRaises(q, i + 4)
         ELSE WordRangeRaises(q, i + 1)

HasWordRange(q) ==
    \E i \in 1..(Len(q) - 3) :
        /\ q[i] \in {"s", "ot"} /\ q[i + 2] \in {"po", "do"}
        /\ q[i + 1] \notin {":", ",", ";", ".."} /\ q[i + 3] \notin {":", ",", ";", ".."}

\* The count after the first "pervye" (or "poslednie") followed by a word,
\* 0 when there is no such place or the word is no count.
RECURSIVE CountAfter(_, _, _)
CountAfter(q, i, words) ==
    IF i + 1 > Len(q) THEN 0
    ELSE IF q[i] \in words /\ q[i + 1] \notin {":", ",", ";", ".."}
         THEN _count_token_to_int(q[i + 1])
         ELSE CountAfter(q, i + 1, words)

Min(a, b) == IF a <= b THEN a ELSE b

\* [int(x) for x in re.findall(r"\d+", q)]
DigitsOf(q) ==
    LET digits(ds) == [i \in 1..Len(ds) |-> DigitValue(ds[i])]
    IN  digits(SelectSeq(q, LAMBDA t : t \in DigitTokens))

\* The values of the ordinal words of q, in order.
OrdinalsOf(q) ==
    LET ordinals(ws) == [i \in 1..Len(ws) |-> _ordinal_word_to_int(ws[i])]
    IN  ordinals(SelectSeq(q, LAMBDA t : IsLetterWord(t) /\ _ordinal_word_to_int(t) > 0))

ChooseVerbs == {"vybirayu", "beru", "vyberi", "vyberu"}

\* The whole utterance is "[s|ot] <word> (po|do|-|..) <word>".
CompactRange(q) ==
    \/ /\ Len(q) = 3
       /\ q[2] \in {"po", "do", "-", ".."}
       /\ q[1] \notin {":", ",", ";", ".."} /\ q[3] \notin {":", ",", ";", ".."}
    \/ /\ Len(q) = 4
       /\ q[1] \in {"s", "ot"}
       /\ q[3] \in {"po", "do", "-", ".."}
       /\ q[2] \notin {":", ",", ";", ".."} /\ q[4] \notin {":", ",", ";", ".."}

\* The rules of _extract_position_refs in the order of the code; q is the
\* normalized utterance, max_n the size of the list (0: unknown), allow is
\* allow_list_parsing.
PositionRules(q, max_n, list_ref, allow) ==
    LET numeric == WithinList(_dedupe_ints(NumericRanges(q, 1, {"po", "do"})
                                               \o NumericRanges(q, 1, {"-", ".."})),
                              max_n)
        worded == WithinList(_dedupe_ints(WordRanges(q, 1)), max_n)
        mixed == WithinList(_dedupe_ints(DigitsOf(q) \o OrdinalsOf(q)), max_n)
        digits == WithinList(_dedupe_ints(DigitsOf(q)), max_n)
    IN  IF q = <<>> THEN <<>>
        ELSE IF _is_all_positions_phrase(q) THEN [i \in 1..max_n |-> i]
        ELSE IF max_n > 0 /\ CountAfter(q, 1, {"pervye"}) > 0
             THEN [i \in 1..Min(CountAfter(q, 1, {"pervye"}), max_n) |-> i]
        ELSE IF max_n > 0 /\ CountAfter(q, 1, {"poslednie"}) > 0
             THEN [i \in 1..Min(CountAfter(q, 1, {"poslednie"}), max_n) |->
                       max_n - Min(CountAfter(q, 1, {"poslednie"}), max_n) + i]
        ELSE IF allow /\ numeric # <<>> THEN numeric
        ELSE IF allow /\ HasWordRange(q) /\ worded # <<>> THEN worded
        ELSE IF \A i \in 1..Len(q) : q[i] \in DigitTokens \union {",", ";", "i", "-"}
             THEN digits
        ELSE IF allow /\ (list_ref \/ max_n > 0) /\ mixed # <<>> THEN mixed
        ELSE IF max_n > 0 /\ HasWord(q, ChooseVerbs) THEN <<>>
        ELSE IF list_ref THEN digits
        ELSE IF DigitsOf(q) # <<>> /\ HasWord(q, {"vybirayu", "beru"})
             THEN <<DigitsOf(q)[1]>>
        ELSE <<>>

\* The call of _extract_position_refs raises: the rules before the ranges
\* do not return, ranges are read, and a numeric range (lines 641-645) is
\* too long to be held in a list, or no numeric range is returned and a
\* worded range (lines 656-661) is too long.
PositionRefsRaise(text, max_count) ==
    LET numeric(q, max_n) ==
            WithinList(_dedupe_ints(NumericRanges(q, 1, {"po", "do"})
                                        \o NumericRanges(q, 1, {"-", ".."})),
                       max_n)
        raises(q, max_n) ==
            IF \/ NumericRangeRaises(q, 1, {"po", "do"})
               \/ NumericRangeRaises(q, 1, {"-", ".."})
            THEN TRUE
            ELSE numeric(q, max_n) = <<>> /\ WordRangeRaises(q, 1)
        reaches(q, max_n) ==
            /\ q # <<>>
            /\ ~_is_all_positions_phrase(q)
            /\ ~(max_n > 0 /\ CountAfter(q, 1, {"pervye"}) > 0)
            /\ ~(max_n > 0 /\ CountAfter(q, 1, {"poslednie"}) > 0)
            /\ max_n > 0 \/ _has_list_reference_phrase(q) \/ CompactRange(q)
            /\ raises(q, max_n)
    IN  reaches(_normalize_text(text), IF max_count > 0 THEN max_count ELSE 0)

\* _extract_position_refs that reads the numbers of the utterance before it
\* looks for a phrase that means all positions.
extract_position_refs_digits_first(text, max_count) ==
    LET rules(q, max_n, list_ref) ==
            IF max_n > 0 /\ WithinList(DigitsOf(q), max_n) # <<>>
            THEN WithinList(_dedupe_ints(DigitsOf(q)), max_n)
            ELSE PositionRules(q, max_n, list_ref,
                               max_n > 0 \/ list_ref \/ CompactRange(q))
        normalized(q) == rules(q, IF max_count > 0 THEN max_count ELSE 0,
                               _has_list_reference_phrase(q))
    IN  normalized(_normalize_text(text))

\* max_count = 0 stands for None.
_extract_position_refs(text, max_count) ==
    LET rules(q, max_n, list_ref) ==
            PositionRules(q, max_n, list_ref,
                          max_n > 0 \/ list_ref \/ CompactRange(q))
        normalized(q) == rules(q, IF max_count > 0 THEN max_count ELSE 0,
                               _has_list_reference_phrase(q))
    IN  normalized(_normalize_text(text))

-----------------------------------------------------------------------------
(* assistant.py: candidates.  A candidate keeps wine_id, wine_name and url  *)
(* of the reference the code builds; NoCandidate stands for None.           *)

NoCandidate == [wine_id |-> "", wine_name |-> "", url |-> ""]

\* A candidate read as a row again (assistant.py line 1086, line 1141).
AsRow(c) ==
    [wine_id |-> c.wine_id, card_key |-> "", wine_name |-> c.wine_name, url |-> c.url]

\* _normalize_candidate taking the url of the brief for the id it was found by.
_normalize_candidate_url_for_id(row) ==
    LET built(wine_id, brief) ==
            IF brief = NoRow
            THEN [wine_id |-> wine_id, wine_name |-> row.wine_name, url |-> row.url]
            ELSE [wine_id |-> IF brief.card_key = wine_id THEN brief.url
                              ELSE brief.card_key,
                  wine_name |-> IF row.wine_name # "" THEN row.wine_name
                                ELSE brief.wine_name,
                  url |-> IF row.url # "" THEN row.url ELSE brief.url]
        looked_up(wine_id) ==
            IF wine_id = "" THEN NoCandidate ELSE built(wine_id, get_wine_brief(wine_id))
        by_name(wine_id) ==
            looked_up(IF wine_id = "" /\ row.wine_name # ""
                      THEN resolve_wine_id_from_fields(row.wine_name)
                      ELSE wine_id)
        by_url(wine_id) == by_name(IF wine_id = "" /\ row.url # "" THEN row.url ELSE wine_id)
    IN  by_url(StripText(IF row.wine_id # "" THEN row.wine_id ELSE row.card_key))

_normalize_candidate(row) ==
    LET built(wine_id, brief) ==
            IF brief = NoRow
            THEN [wine_id |-> wine_id, wine_name |-> row.wine_name, url |-> row.url]
            ELSE [wine_id |-> IF brief.card_key # "" THEN brief.card_key ELSE wine_id,
                  wine_name |-> IF row.wine_name # "" THEN row.wine_name
                                ELSE brief.wine_name,
                  url |-> IF row.url # "" THEN row.url ELSE brief.url]
        looked_up(wine_id) ==
            IF wine_id = "" THEN NoCandidate ELSE built(wine_id, get_wine_brief(wine_id))
        by_name(wine_id) ==
            looked_up(IF wine_id = "" /\ row.wine_name # ""
                      THEN resolve_wine_id_from_fields(row.wine_name)
                      ELSE wine_id)
        by_url(wine_id) == by_name(IF wine_id = "" /\ row.url # "" THEN row.url ELSE wine_id)
    IN  by_url(StripText(IF row.wine_id # "" THEN row.wine_id ELSE row.card_key))

ROWS_SCANNED == 200
MAX_CANDIDATES == 30

\* The loop of _extract_wine_candidates_from_rows over rows[:200].
RECURSIVE ExtractLoop(_, _)
ExtractLoop(rows, out) ==
    IF rows = <<>> \/ Len(out) >= MAX_CANDIDATES THEN out
    ELSE LET next(normalized) ==
                 ExtractLoop(Tail(rows),
                             IF normalized = NoCandidate THEN out
                             ELSE Append(out, normalized))
         IN  next(_normalize_candidate(Head(rows)))

_extract_wine_candidates_from_rows(rows) ==
    ExtractLoop(SubSeq(rows, 1, Min(Len(rows), ROWS_SCANNED)), <<>>)

\* The loop of _search_wine_candidates: one candidate for each id.
RECURSIVE SearchLoop(_, _)
SearchLoop(rows, out) ==
    IF rows = <<>> THEN out
    ELSE LET next(normalized) ==
                 SearchLoop(Tail(rows),
                            IF \/ normalized = NoCandidate
                               \/ \E i \in 1..Len(out) : out[i].wine_id = normalized.wine_id
                            THEN out
                            ELSE Append(out, normalized))
         IN  next(_normalize_candidate(Head(rows)))

SEARCH_LIMIT == 7

_search_wine_candidates(reference, limit) ==
    SearchLoop(search_wines_by_text(reference, limit), <<>>)

\* The label is the name of the wine ("no_name" for the code's placeholder).
_format_wine_label(item) == IF item.wine_name # "" THEN item.wine_name ELSE "no_name"

_format_candidates_prompt(candidates, record_type, note_content) ==
    << <<"several_found", record_type>> >>
        \o [i \in 1..Len(candidates) |-> <<_format_wine_label(candidates[i])>>]
        \o (IF record_type = "note" /\ note_content # <<>>
            THEN << <<"note_text_kept">> >> ELSE <<>>)
        \o << <<"answer_with_number">> >>

_build_record_saved_answer(record_type, candidate, content) ==
    IF record_type = "like"
    THEN << <<"like_saved", _format_wine_label(candidate)>> >>
    ELSE << <<"note_saved", _format_wine_label(candidate)>>, <<"note_text">> \o content >>

-----------------------------------------------------------------------------
(* assistant.py: the intent tests on an utterance.                          *)

CapabilityWords == {"help", "spravka", "vozmozhnosti"}

_is_capabilities_request(text) == HasWord(_normalize_text(text), CapabilityWords)

\* Words that hold "zametk"; words that hold a like marker ("layk",
\* "nravitsya", "otmet", ...).
NoteWords == {"zametku", "zametka", "zametki"}
LikeWords == {"layk", "layki", "nravitsya", "otmet"}

\* "" stands for None.
_extract_record_intent(text) ==
    IF HasWord(_normalize_text(text), NoteWords) THEN "note"
    ELSE IF HasWord(_normalize_text(text), LikeWords) THEN "like"
    ELSE ""

ActionVerbs == {"postav", "dobav", "sohrani", "zapishi", "otmet"}
RecordWords == {"layk", "layki", "zametku", "zametka", "zametki"}

_is_explicit_record_action(text) ==
    /\ HasWord(_normalize_text(text), ActionVerbs)
    /\ HasWord(_normalize_text(text), RecordWords)

\* Index of the first word of text from i on that is in words, 0 if none.
RECURSIVE IndexOf(_, _, _)
IndexOf(text, i, words) ==
    IF i > Len(text) THEN 0
    ELSE IF NormalizeWord(text[i]) \in words THEN i
    ELSE IndexOf(text, i + 1, words)

\* Index of the first word of b in words that another word follows.
RECURSIVE IndexOfFollowed(_, _, _)
IndexOfFollowed(b, i, words) ==
    IF i + 1 > Len(b) THEN 0
    ELSE IF NormalizeWord(b[i]) \in words THEN i
    ELSE IndexOfFollowed(b, i + 1, words)

\* The words after position i.
After(text, i) == SubSeq(text, i + 1, Len(text))

\* <<>> stands for None.
_extract_note_content(raw) ==
    LET by_word(i) == IF i # 0 THEN After(raw, i) ELSE <<>>
        by_colon(i) ==
            IF i # 0 /\ After(raw, i) # <<>> THEN After(raw, i)
            ELSE by_word(IndexOfFollowed(raw, 1, {"zametka"}))
    IN  by_colon(IndexOf(raw, 1, {":"}))

\* The words of raw before the first ":".
BeforeColon(raw) ==
    LET cut(i) == IF i = 0 THEN raw ELSE SubSeq(raw, 1, i - 1)
    IN  cut(IndexOf(raw, 1, {":"}))

\* Index of the first place of the pattern "(dlya|k) vin[u] <rest>" in b.
RECURSIVE IndexOfFor(_, _)
IndexOfFor(b, i) ==
    IF i + 2 > Len(b) THEN 0
    ELSE IF NormalizeWord(b[i]) \in {"dlya", "k"} /\ NormalizeWord(b[i + 1]) \in {"vinu", "vin"}
         THEN i + 1
    ELSE IndexOfFor(b, i + 1)

\* <<>> stands for None.
_extract_wine_reference(raw) ==
    LET third(b, i) == IF i # 0 THEN After(b, i) ELSE <<>>
        second(b, i) ==
            IF i # 0 THEN After(b, i) ELSE third(b, IndexOfFollowed(b, 1, {"vina"}))
        first(b, i) ==
            IF i # 0 THEN After(b, i) ELSE second(b, IndexOfFollowed(b, 1, {"vinu", "vin"}))
        patterns(b) == first(b, IndexOfFor(b, 1))
    IN  patterns(BeforeColon(raw))

MyRecordWords == {"layk", "layki", "zametku", "zametka", "zametki", "otmet", "otmetki",
                  "zapisi"}

_is_my_records_request(text) ==
    /\ HasWord(_normalize_text(text), {"moi"})
    /\ HasWord(_normalize_text(text), MyRecordWords)

_is_full_list_request(text) ==
    \/ HasWord(_normalize_text(text), {"polnostyu"})
    \/ HasPair(_normalize_text(text), {"polnyy", "ves"}, {"spisok"})

_is_price_or_availability_request(text) ==
    HasWord(_normalize_text(text), {"cena", "stoit", "kupit"})

\* An utterance of one to eight words or numbers looks like a name or a topic.
_looks_like_wine_name_or_topic(text) ==
    \/ HasWord(_normalize_text(text), {"vino", "vina", "vinu", "vin", "sort"})
    \/ Len(SelectSeq(text, LAMBDA t : t \notin {":", ",", ";", "-", ".."})) \in 1..8

-----------------------------------------------------------------------------
(* assistant.py: _handle_contextual_record_intent.  A Pending Action is a   *)
(* record of the keys the code stores; set = FALSE stands for None, an      *)
(* empty candidates or selected_list for an absent key.                     *)

NoPending ==
    [set |-> FALSE, record_type |-> "", content |-> <<>>, reference |-> <<>>,
     candidates |-> <<>>, selected |-> NoCandidate, selected_list |-> <<>>]

\* The handler returned None: the turn goes on to the next handler.
HandlerNone(records) ==
    [handled |-> FALSE, outcome |-> "none", answer |-> <<>>,
     set_pending_record_action |-> NoPending,
     clear_pending_record_action |-> FALSE, records |-> records, saved |-> <<>>]

\* A message that neither sets nor clears the Pending Action.
HandlerReply(outcome, records) ==
    [handled |-> TRUE, outcome |-> outcome, answer |-> << <<outcome>> >>,
     set_pending_record_action |-> NoPending,
     clear_pending_record_action |-> FALSE, records |-> records, saved |-> <<>>]

\* Lines 1195-1208: add_record for every selected candidate; acc holds the
\* store, the ids saved and the errors so far.
RECURSIVE SaveLoop(_, _, _, _, _)
SaveLoop(selected_list, record_type, note_content, public_user, acc) ==
    IF selected_list = <<>> THEN acc
    ELSE LET next(r) ==
                 SaveLoop(Tail(selected_list), record_type, note_content, public_user,
                          IF r.ok
                          THEN [records |-> r.records,
                                saved |-> Append(acc.saved, Head(selected_list).wine_id),
                                errors |-> acc.errors]
                          ELSE [records |-> acc.records, saved |-> acc.saved,
                                errors |-> Append(acc.errors, r.error)])
         IN  next(add_record(public_user, record_type,
                             IF record_type = "note" THEN note_content ELSE <<>>,
                             Head(selected_list).wine_id, acc.records))

\* Lines 1216-1234: the confirmation.
SavedAnswer(record_type, note_content, selected_list, acc, duplicates) ==
    (IF Len(acc.saved) = 1
     THEN _build_record_saved_answer(record_type, selected_list[1], note_content)
     ELSE << <<"saved_many", record_type>> >>
              \o [i \in 1..Min(Len(selected_list), 5) |->
                      <<_format_wine_label(selected_list[i])>>]
              \o (IF Len(selected_list) > 5 THEN << <<"and_more">> >> ELSE <<>>)
              \o (IF record_type = "note" THEN << <<"note_text">> \o note_content >>
                  ELSE <<>>)
              \o (IF acc.errors # <<>> THEN << <<"partly_failed">> \o acc.errors >>
                  ELSE <<>>))
    \o (IF duplicates > 0 THEN << <<"duplicates_skipped">> >> ELSE <<>>)

\* Lines 1195-1252.
HandlerSave(record_type, note_content, public_user, records, selected_list, duplicates) ==
    LET done(acc) ==
            IF acc.saved = <<>>
            THEN [handled |-> TRUE, outcome |-> "save_failed",
                  answer |-> << <<"save_failed">> \o acc.errors >>,
                  set_pending_record_action |-> NoPending,
                  clear_pending_record_action |-> FALSE,
                  records |-> acc.records, saved |-> <<>>]
            ELSE [handled |-> TRUE, outcome |-> "saved",
                  answer |-> SavedAnswer(record_type, note_content, selected_list, acc,
                                         duplicates),
                  set_pending_record_action |-> NoPending,
                  clear_pending_record_action |-> TRUE,
                  records |-> acc.records, saved |-> acc.saved]
    IN  done(SaveLoop(selected_list, record_type, note_content, public_user,
                      [records |-> records, saved |-> <<>>, errors |-> <<>>]))

\* Every selected candidate is kept, an id selected twice as well.
UniqueById_keeping_all(candidates) == candidates

\* Lines 1155-1166: the first candidate of every id.
RECURSIVE UniqueById(_)
UniqueById(candidates) ==
    IF candidates = <<>> THEN <<>>
    ELSE LET keep(out, cand) ==
                 IF cand.wine_id = "" \/ \E i \in 1..Len(out) : out[i].wine_id = cand.wine_id
                 THEN out
                 ELSE Append(out, cand)
         IN  keep(UniqueById(SubSeq(candidates, 1, Len(candidates) - 1)),
                  candidates[Len(candidates)])

\* Lines 1171-1193: a note without content waits for the content.
HandlerContent(record_type, note_content, public_user, records, selected, selected_list, duplicates) ==
    IF record_type = "note" /\ note_content = <<>>
    THEN [handled |-> TRUE, outcome |-> "ask_content",
          answer |-> << <<"wines_chosen">>
                            \o [i \in 1..Min(Len(selected_list), 3) |->
                                    _format_wine_label(selected_list[i])],
                        <<"give_note_text">> >>,
          set_pending_record_action |->
              [set |-> TRUE, record_type |-> "note", content |-> <<>>,
               reference |-> <<>>, candidates |-> <<>>,
               selected |-> selected, selected_list |-> selected_list],
          clear_pending_record_action |-> FALSE, records |-> records, saved |-> <<>>]
    ELSE HandlerSave(record_type, note_content, public_user, records, selected_list,
                     duplicates)

\* Lines 1132-1169: the targets kept by the Pending Action are used when the
\* utterance names none.
HandlerTargets(pending, record_type, note_content, public_user, records, selected, selected_list) ==
    LET unique(sel, list, uniq) ==
            IF uniq # <<>>
            THEN HandlerContent(record_type, note_content, public_user, records,
                                uniq[1], uniq, Len(list) - Len(uniq))
            ELSE HandlerContent(record_type, note_content, public_user, records,
                                sel, list, 0)
        checked(sel, list) ==
            IF sel = NoCandidate THEN HandlerNone(records)
            ELSE IF \E i \in 1..Len(list) : list[i].wine_id = ""
                 THEN HandlerReply("id_unknown", records)
            ELSE unique(sel, list, UniqueById(list))
        chosen(sel, list) ==
            checked(IF sel = NoCandidate /\ list # <<>> THEN list[1] ELSE sel, list)
        from_pending(list) ==
            chosen(IF selected = NoCandidate /\ pending.set /\ pending.selected # NoCandidate
                   THEN _normalize_candidate(AsRow(pending.selected))
                   ELSE selected,
                   IF list = <<>> /\ pending.set THEN pending.selected_list ELSE list)
    IN  from_pending(IF selected_list = <<>> /\ selected # NoCandidate
                     THEN <<selected>> ELSE selected_list)

\* Lines 1085-1088: the candidates at the positions, normalized again.
RECURSIVE SelectPositions(_, _)
SelectPositions(candidates, pos_list) ==
    IF pos_list = <<>> THEN <<>>
    ELSE LET next(normalized) ==
                 (IF normalized = NoCandidate THEN <<>> ELSE <<normalized>>)
                     \o SelectPositions(candidates, Tail(pos_list))
         IN  next(_normalize_candidate(AsRow(candidates[Head(pos_list)])))

\* Lines 1049-1090: the utterance points into the list of candidates.
HandlerPositions(pending, record_type, note_content, public_user, records, candidates, pos_list, has_list_ref, is_all_ref) ==
    LET picked(selected_list) ==
            HandlerTargets(pending, record_type, note_content, public_user, records,
                           IF selected_list # <<>> THEN selected_list[1] ELSE NoCandidate,
                           selected_list)
        ranged(positions) ==
            IF positions = <<>> /\ has_list_ref
            THEN HandlerReply("positions_unclear", records)
            ELSE IF \E i \in 1..Len(positions) :
                        positions[i] < 1 \/ positions[i] > Len(candidates)
                 THEN HandlerReply("out_of_range", records)
            ELSE picked(SelectPositions(candidates, positions))
    IN  IF candidates = <<>> THEN HandlerReply("no_list_context", records)
        ELSE ranged(IF pos_list = <<>> /\ is_all_ref
                    THEN [i \in 1..Len(candidates) |-> i]
                    ELSE pos_list)

\* HandlerReference taking the first wine found when several are found.
HandlerReference_first_match(pending, record_type, note_content, public_user, records, reference) ==
    LET found(candidates) ==
            IF Len(candidates) >= 1
            THEN HandlerTargets(pending, record_type, note_content, public_user, records,
                                candidates[1], <<candidates[1]>>)
            ELSE HandlerReply("not_found", records)
    IN  IF reference = <<>>
        THEN HandlerTargets(pending, record_type, note_content, public_user, records,
                            NoCandidate, <<>>)
        ELSE found(_search_wine_candidates(reference, SEARCH_LIMIT))

\* Lines 1091-1130: the utterance (or the Pending Action) names the wine.
HandlerReference(pending, record_type, note_content, public_user, records, reference) ==
    LET found(candidates) ==
            IF Len(candidates) = 1
            THEN HandlerTargets(pending, record_type, note_content, public_user, records,
                                candidates[1], <<candidates[1]>>)
            ELSE IF Len(candidates) > 1
            THEN [handled |-> TRUE, outcome |-> "ask_target",
                  answer |-> _format_candidates_prompt(candidates, record_type,
                                                       note_content),
                  set_pending_record_action |->
                      [set |-> TRUE, record_type |-> record_type,
                       content |-> note_content, reference |-> reference,
                       candidates |-> candidates, selected |-> NoCandidate,
                       selected_list |-> <<>>],
                  clear_pending_record_action |-> FALSE, records |-> records,
                  saved |-> <<>>]
            ELSE HandlerReply("not_found", records)
    IN  IF reference = <<>>
        THEN HandlerTargets(pending, record_type, note_content, public_user, records,
                            NoCandidate, <<>>)
        ELSE found(_search_wine_candidates(reference, SEARCH_LIMIT))

\* Lines 1028-1049.
HandlerResolve(user_text, public_user, record_context, records, record_type) ==
    LET pending == record_context.pending_record_action
        branch(source_candidates, pos_list, has_list_ref, is_all_ref, note_content,
               reference) ==
            IF pos_list # <<>> \/ has_list_ref \/ is_all_ref
            THEN HandlerPositions(pending, record_type, note_content, public_user,
                                  records, source_candidates, pos_list, has_list_ref,
                                  is_all_ref)
            ELSE HandlerReference(pending, record_type, note_content, public_user,
                                  records,
                                  IF reference = <<>> /\ pending.set
                                  THEN pending.reference ELSE reference)
        sourced(source_candidates, own_content) ==
            branch(source_candidates,
                   _extract_position_refs(user_text, Len(source_candidates)),
                   _has_list_reference_phrase(_normalize_text(user_text)),
                   _is_all_positions_phrase(_normalize_text(user_text)),
                   IF own_content = <<>> /\ pending.set /\ record_type = "note"
                   THEN pending.content ELSE own_content,
                   _extract_wine_reference(user_text))
    IN  sourced(IF pending.set /\ pending.candidates # <<>>
                THEN pending.candidates
                ELSE record_context.last_wine_candidates,
                _extract_note_content(user_text))

\* Lines 1014-1026.
\* The handler without the test for an explicit record action.
handle_contextual_record_intent_on_any_intent(user_text, public_user, record_context, records) ==
    LET pending == record_context.pending_record_action
        typed(record_type) ==
            IF record_type \notin {"like", "note"} THEN HandlerNone(records)
            ELSE HandlerResolve(user_text, public_user, record_context, records,
                                record_type)
        intended(intent) ==
            IF intent = "" /\ ~pending.set THEN HandlerNone(records)
            ELSE typed(IF intent # "" THEN intent ELSE pending.record_type)
    IN  intended(_extract_record_intent(user_text))

_handle_contextual_record_intent(user_text, public_user, record_context, records) ==
    LET pending == record_context.pending_record_action
        typed(record_type) ==
            IF record_type \notin {"like", "note"} THEN HandlerNone(records)
            ELSE HandlerResolve(user_text, public_user, record_context, records,
                                record_type)
        intended(intent) ==
            IF intent = "" /\ ~pending.set THEN HandlerNone(records)
            ELSE IF intent # "" /\ ~pending.set /\ ~_is_explicit_record_action(user_text)
                 THEN HandlerNone(records)
            ELSE typed(IF intent # "" THEN intent ELSE pending.record_type)
    IN  intended(_extract_record_intent(user_text))

-----------------------------------------------------------------------------
(* assistant.py: WineAssistant.ask.  The backend and the collaborators are  *)
(* the environment: a backend response is                                   *)
(*   [tool_calls, content, fallback_ok]                                     *)
(* (content is msg.content, <<>> for None; fallback_ok is the outcome of    *)
(* the fallback lookup if the turn issues one), and a tool call carries,    *)
(* next to its name and arguments, what the collaborator it reaches will    *)
(* answer: db_ok and rows for storage, web_ok for the lookup provider.      *)

MAX_ROUNDS == 3
MAX_SQL_ROWS == 200

\* The result of ask: the answer, or raised # "" when ask raised; path names
\* the return statement taken; the other fields are the keys of meta and of
\* meta["perf"] the callers read.
AskResult(path, answer, st) ==
    [path |-> path, raised |-> "", answer |-> answer,
     sql_queries |-> st.sql_queries,
     wine_context_candidates |-> st.latest_wine_candidates,
     set_pending_record_action |-> NoPending,
     clear_pending_record_action |-> FALSE,
     llm_rounds |-> st.llm_rounds, tool_calls_total |-> st.tool_calls_total,
     db_tool_calls |-> st.db_tool_calls, web_tool_calls |-> st.web_tool_calls,
     fallback_web_calls |-> st.fallback_web_calls,
     tool_messages |-> st.tool_messages, records |-> st.records,
     outcome |-> "", saved |-> <<>>]

\* The locals of ask before the first round (lines 1405-1416, 1477-1486).
AskLocals(records) ==
    [llm_rounds |-> 0, tool_calls_total |-> 0, db_tool_calls |-> 0,
     web_tool_calls |-> 0, fallback_web_calls |-> 0,
     last_rows |-> 0, sql_queries |-> <<>>, web_results |-> 0,
     latest_wine_candidates |-> <<>>, tool_messages |-> 0, records |-> records,
     raised |-> "", returned |-> FALSE, path |-> "", answer |-> <<>>,
     messages |-> <<>>]

\* Line 1551: the message of the backend with its tool calls, as appended to
\* the conversation.
AssistantMessage(tool_calls) ==
    [role |-> "assistant", tool_call_id |-> 0, ok |-> FALSE,
     tool_calls |-> [k \in 1..Len(tool_calls) |->
                        [id |-> tool_calls[k].id, name |-> tool_calls[k].name]]]

\* Lines 1655-1661: the tool message of a call; of the structured result the
\* field ok is kept.
ToolMessage(tool_call, ok) ==
    [role |-> "tool", tool_call_id |-> tool_call.id, ok |-> ok, tool_calls |-> <<>>]

\* _format_public_records_answer: one line for each record, newest first.
_format_public_records_answer(rows) ==
    IF rows = <<>> THEN << <<"no_records_yet">> >>
    ELSE << <<"your_records">> >>
             \o [i \in 1..Min(Len(rows), MAX_CANDIDATES) |->
                     <<rows[Len(rows) + 1 - i].record_type,
                       IF get_wine_brief(rows[Len(rows) + 1 - i].wine_id) # NoRow
                       THEN get_wine_brief(rows[Len(rows) + 1 - i].wine_id).wine_name
                       ELSE rows[Len(rows) + 1 - i].wine_id>>
                     \o (IF rows[Len(rows) + 1 - i].record_type = "note"
                         THEN rows[Len(rows) + 1 - i].content ELSE <<>>)]

\* _extract_records_filter_type: "" stands for None.
_extract_records_filter_type(text) ==
    IF HasWord(_normalize_text(text), {"layk", "layki"})
           /\ ~HasWord(_normalize_text(text), NoteWords)
    THEN "like"
    ELSE IF HasWord(_normalize_text(text), NoteWords)
                /\ ~HasWord(_normalize_text(text), {"layk", "layki"})
    THEN "note"
    ELSE ""

list_records(user, record_type, records) ==
    SelectSeq(records, LAMBDA r : r.user = user
                                  /\ (record_type = "" \/ r.record_type = record_type))

_handle_my_records_request(user_text, public_user, records) ==
    IF ~_is_my_records_request(user_text) THEN HandlerNone(records)
    ELSE [handled |-> TRUE, outcome |-> "my_records",
          answer |-> _format_public_records_answer(
                         list_records(IF public_user = "" THEN GUEST ELSE public_user,
                                      _extract_records_filter_type(user_text), records)),
          set_pending_record_action |-> NoPending,
          clear_pending_record_action |-> FALSE, records |-> records, saved |-> <<>>]

\* _tool_web_response: int(args.get("max_results", 5) or 5) is outside every
\* try block, and so is args.get.
_tool_web_response(tool_call) ==
    IF tool_call.json = "malformed" THEN [ok |-> FALSE, raised |-> "", results |-> 0]
    ELSE IF tool_call.json = "not_object"
    THEN [ok |-> FALSE, raised |-> "AttributeError", results |-> 0]
    ELSE IF ~tool_call.int_ok THEN [ok |-> FALSE, raised |-> "ValueError", results |-> 0]
    ELSE [ok |-> tool_call.web_ok, raised |-> "",
          results |-> IF tool_call.web_ok THEN tool_call.hits ELSE 0]

\* _tool_public_add_response: args.get is outside the try block.
_tool_public_add_response(tool_call, default_user, records) ==
    LET added(r) == [ok |-> r.ok, raised |-> "", records |-> r.records]
    IN  IF tool_call.json = "malformed"
        THEN [ok |-> FALSE, raised |-> "", records |-> records]
        ELSE IF tool_call.json = "not_object"
        THEN [ok |-> FALSE, raised |-> "AttributeError", records |-> records]
        ELSE added(add_record(default_user, tool_call.record_type, tool_call.content,
                              tool_call.wine_id, records))

\* _tool_public_list_response and _tool_public_summary_response change nothing;
\* they raise like the others on arguments that are not an object.
ToolReadOnly(tool_call) ==
    IF tool_call.json = "not_object" THEN "AttributeError" ELSE ""

\* _format_full_list_answer: the url column is left out.
_format_full_list_answer(rows) ==
    IF rows = <<>> THEN << <<"nothing_found">> >>
    ELSE << <<"found_full_list">> >>
             \o [i \in 1..Len(rows) |->
                     (IF rows[i].wine_id # "" THEN <<rows[i].wine_id>> ELSE <<>>)
                     \o (IF rows[i].card_key # "" THEN <<rows[i].card_key>> ELSE <<>>)
                     \o (IF rows[i].wine_name # "" THEN <<rows[i].wine_name>> ELSE <<>>)
                     \o (IF /\ rows[i].wine_id = "" /\ rows[i].card_key = ""
                            /\ rows[i].wine_name = ""
                         THEN <<"empty_row">> ELSE <<>>)]

\* _tool_response hands the model the first max_rows_to_model rows.
MAX_ROWS_TO_MODEL == 80

LimitedRows(rows) ==
    SubSeq(rows, 1, IF Len(rows) < MAX_ROWS_TO_MODEL THEN Len(rows)
                    ELSE MAX_ROWS_TO_MODEL)

\* The dispatch of execute_sql that goes on after a query even when the full
\* list was asked for.
DispatchExecuteSql_without_return(tool_call, st, force_full) ==
    LET counted == [st EXCEPT !.tool_calls_total = @ + 1]
        succeeded(safe_sql, extracted) ==
            [counted EXCEPT
                !.db_tool_calls = @ + 1,
                !.last_rows = Len(tool_call.rows),
                !.latest_wine_candidates = IF extracted # <<>> THEN extracted ELSE @,
                !.sql_queries = Append(@, safe_sql),
                !.returned = FALSE,
                !.path = @,
                !.answer = @,
                !.tool_messages = @ + 1,
                !.messages = Append(@, ToolMessage(tool_call, TRUE))]
        responded(result) ==
            IF result.raised THEN [counted EXCEPT !.raised = result.error]
            ELSE IF result.ok
            THEN succeeded(result.safe_sql,
                           _extract_wine_candidates_from_rows(
                               LimitedRows(tool_call.rows)))
            ELSE [counted EXCEPT !.db_tool_calls = @ + 1, !.tool_messages = @ + 1,
                                 !.messages = Append(@, ToolMessage(tool_call, FALSE))]
    IN  responded(_tool_response([json |-> tool_call.json, query |-> tool_call.query],
                                 MAX_SQL_ROWS, <<>>, tool_call.db_ok))

\* Lines 1554-1587: the branch execute_sql of the dispatch.
DispatchExecuteSql(tool_call, st, force_full) ==
    LET counted == [st EXCEPT !.tool_calls_total = @ + 1]
        succeeded(safe_sql, extracted) ==
            [counted EXCEPT
                !.db_tool_calls = @ + 1,
                !.last_rows = Len(tool_call.rows),
                !.latest_wine_candidates = IF extracted # <<>> THEN extracted ELSE @,
                !.sql_queries = Append(@, safe_sql),
                !.returned = force_full,
                !.path = IF force_full THEN "full_list" ELSE @,
                !.answer = IF force_full
                           THEN _sanitize_public_answer(
                                    _format_full_list_answer(tool_call.rows))
                           ELSE @,
                !.tool_messages = IF force_full THEN @ ELSE @ + 1,
                !.messages = IF force_full THEN @
                             ELSE Append(@, ToolMessage(tool_call, TRUE))]
        responded(result) ==
            IF result.raised THEN [counted EXCEPT !.raised = result.error]
            ELSE IF result.ok
            THEN succeeded(result.safe_sql,
                           _extract_wine_candidates_from_rows(
                               IF force_full THEN tool_call.rows
                               ELSE LimitedRows(tool_call.rows)))
            ELSE [counted EXCEPT !.db_tool_calls = @ + 1, !.tool_messages = @ + 1,
                                 !.messages = Append(@, ToolMessage(tool_call, FALSE))]
    IN  responded(_tool_response([json |-> tool_call.json, query |-> tool_call.query],
                                 MAX_SQL_ROWS, <<>>, tool_call.db_ok))

\* Lines 1588-1619: the branch search_web.
DispatchSearchWeb(tool_call, st) ==
    LET counted == [st EXCEPT !.tool_calls_total = @ + 1]
        responded(result) ==
            IF result.raised # "" THEN [counted EXCEPT !.raised = result.raised]
            ELSE [counted EXCEPT !.web_tool_calls = @ + 1,
                                 !.web_results = @ + result.results,
                                 !.tool_messages = @ + 1,
                                 !.messages = Append(@, ToolMessage(tool_call, result.ok))]
    IN  responded(_tool_web_response(tool_call))

\* Lines 1620-1632: the branch add_public_record.
DispatchAddRecord(tool_call, st, public_user) ==
    LET counted == [st EXCEPT !.tool_calls_total = @ + 1]
        responded(result) ==
            IF result.raised # "" THEN [counted EXCEPT !.raised = result.raised]
            ELSE [counted EXCEPT !.records = result.records,
                                 !.tool_messages = @ + 1,
                                 !.messages = Append(@, ToolMessage(tool_call, result.ok))]
    IN  responded(_tool_public_add_response(tool_call, public_user, st.records))

\* The last branch of the dispatch leaving an unknown tool without a tool
\* message.
DispatchOther_silent_on_unknown(tool_call, st) ==
    LET counted == [st EXCEPT !.tool_calls_total = @ + 1]
        known == tool_call.name \in {"list_public_records", "get_wine_public_summary"}
        ok == /\ known
              /\ tool_call.json = "object"
              /\ tool_call.name = "get_wine_public_summary" => tool_call.wine_id # ""
    IN  IF known /\ ToolReadOnly(tool_call) # ""
        THEN [counted EXCEPT !.raised = ToolReadOnly(tool_call)]
        ELSE IF known
        THEN [counted EXCEPT !.tool_messages = @ + 1,
                             !.messages = Append(@, ToolMessage(tool_call, ok))]
        ELSE counted

\* Lines 1633-1661: the read-only annotation tools and the unknown tool.  A
\* read-only tool answers ok = false on arguments that are not JSON and on
\* a summary asked for no wine; the unknown tool is answered ok = false.
DispatchOther(tool_call, st) ==
    LET counted == [st EXCEPT !.tool_calls_total = @ + 1]
        known == tool_call.name \in {"list_public_records", "get_wine_public_summary"}
        ok == /\ known
              /\ tool_call.json = "object"
              /\ tool_call.name = "get_wine_public_summary" => tool_call.wine_id # ""
    IN  IF known /\ ToolReadOnly(tool_call) # ""
        THEN [counted EXCEPT !.raised = ToolReadOnly(tool_call)]
        ELSE [counted EXCEPT !.tool_messages = @ + 1,
                             !.messages = Append(@, ToolMessage(tool_call, ok))]

\* Lines 1552-1661: the tool calls of one round in their order; a call that
\* raises or returns ends the loop.
RECURSIVE DispatchAll(_, _, _, _)
DispatchAll(tool_calls, st, force_full, public_user) ==
    IF tool_calls = <<>> \/ st.raised # "" \/ st.returned THEN st
    ELSE LET next(after) == DispatchAll(Tail(tool_calls), after, force_full, public_user)
         IN  next(CASE Head(tool_calls).name = "execute_sql" ->
                           DispatchExecuteSql(Head(tool_calls), st, force_full)
                    [] Head(tool_calls).name = "search_web" ->
                           DispatchSearchWeb(Head(tool_calls), st)
                    [] Head(tool_calls).name = "add_public_record" ->
                           DispatchAddRecord(Head(tool_calls), st, public_user)
                    [] OTHER -> DispatchOther(Head(tool_calls), st))

\* The result of a turn a deterministic handler answered (lines 1450-1460).
HandledResult(path, h) ==
    [AskResult(path, _sanitize_public_answer(h.answer), AskLocals(h.records)) EXCEPT
        !.set_pending_record_action = h.set_pending_record_action,
        !.clear_pending_record_action = h.clear_pending_record_action,
        !.outcome = h.outcome,
        !.saved = h.saved]

\* ask raised: nothing is returned.
RaisedResult(st) == [AskResult("raised", <<>>, st) EXCEPT !.raised = st.raised]

\* The capability check is missing from the start of ask.
AskBegin_without_capabilities(user_text, public_user, record_context, records, capabilities, has_client) ==
    LET unhandled ==
            IF ~has_client
            THEN AskResult("no_client", << <<"backend_unavailable">> >>, AskLocals(records))
            ELSE AskResult("loop", <<>>, AskLocals(records))
        my_records(h) ==
            IF h.handled THEN HandledResult("my_records", h) ELSE unhandled
        contextual(h) ==
            IF h.handled THEN HandledResult("contextual", h)
            ELSE my_records(_handle_my_records_request(user_text, public_user, records))
    IN  contextual(_handle_contextual_record_intent(user_text, public_user,
                                                    record_context, records))

\* Lines 1430-1476: the turn before the first backend call.  path = "loop"
\* tells that the turn goes on to the rounds.
\* The start of ask with the request for the user's records looked at before
\* the contextual record intent.
AskBegin_records_first(user_text, public_user, record_context, records, capabilities, has_client) ==
    LET unhandled ==
            IF ~has_client
            THEN AskResult("no_client", << <<"backend_unavailable">> >>, AskLocals(records))
            ELSE AskResult("loop", <<>>, AskLocals(records))
        contextual(h) ==
            IF h.handled THEN HandledResult("contextual", h) ELSE unhandled
        my_records(h) ==
            IF h.handled THEN HandledResult("my_records", h)
            ELSE contextual(_handle_contextual_record_intent(user_text, public_user,
                                                             record_context, records))
    IN  IF _is_capabilities_request(user_text)
        THEN AskResult("capabilities", capabilities, AskLocals(records))
        ELSE my_records(_handle_my_records_request(user_text, public_user, records))

AskBegin(user_text, public_user, record_context, records, capabilities, has_client) ==
    LET unhandled ==
            IF ~has_client
            THEN AskResult("no_client", << <<"backend_unavailable">> >>, AskLocals(records))
            ELSE AskResult("loop", <<>>, AskLocals(records))
        my_records(h) ==
            IF h.handled THEN HandledResult("my_records", h) ELSE unhandled
        contextual(h) ==
            IF h.handled THEN HandledResult("contextual", h)
            ELSE my_records(_handle_my_records_request(user_text, public_user, records))
    IN  IF _is_capabilities_request(user_text)
        THEN AskResult("capabilities", capabilities, AskLocals(records))
        ELSE contextual(_handle_contextual_record_intent(user_text, public_user,
                                                         record_context, records))

\* Outcomes of the annotation handler that follow a look-up of storage
\* (search_wines_by_text at line 1098, get_wine_brief under
\* _normalize_candidate at lines 1086 and 1141), and those that follow a
\* call of add_record (lines 1195-1208).
LookupOutcomes == {"ask_target", "not_found", "id_unknown", "ask_content",
                   "save_failed", "saved"}
StoreOutcomes == {"save_failed", "saved"}

\* The start of ask while a collaborator is down: storage ("storage") or
\* the annotation store ("store") raises sqlite3.Error on every call.  The
\* handler catches PublicRecordError only, and _handle_my_records_request
\* catches nothing (line 985).
AskBeginDown(user_text, public_user, record_context, records, capabilities, has_client, down) ==
    LET raised(error) ==
            RaisedResult([AskLocals(records) EXCEPT !.raised = error])
        failing(begun) ==
            IF /\ begun.path = "contextual"
               /\ down = "storage"
               /\ begun.outcome \in LookupOutcomes
            THEN raised("StorageError")
            ELSE IF /\ begun.path = "contextual"
                    /\ down = "store"
                    /\ begun.outcome \in StoreOutcomes
            THEN raised("StoreError")
            ELSE IF begun.path = "my_records" /\ down = "store"
            THEN raised("StoreError")
            ELSE begun
    IN  failing(AskBegin(user_text, public_user, record_context, records,
                         capabilities, has_client))

\* Lines 1501-1549: the backend answered without tool calls.
\* The direct answer with a fallback lookup that does not look at the
\* results collected so far.
DirectAnswer_ignoring_results(response, st, user_text) ==
    LET looked_up ==
            [st EXCEPT !.fallback_web_calls = @ + 1,
                       !.web_results = IF response.fallback_ok THEN @ + 1 ELSE @]
        answered(after) ==
            [after EXCEPT
                !.returned = TRUE,
                !.path = "direct",
                !.answer = _sanitize_public_answer(
                               IF response.content = <<>> THEN << <<"no_answer">> >>
                               ELSE response.content)]
    IN  answered(IF \/ _is_price_or_availability_request(user_text)
                    \/ (st.last_rows = 0 /\ _looks_like_wine_name_or_topic(user_text))
                 THEN looked_up ELSE st)

DirectAnswer(response, st, user_text) ==
    LET looked_up ==
            [st EXCEPT !.fallback_web_calls = @ + 1,
                       !.web_results = IF response.fallback_ok THEN @ + 1 ELSE @]
        answered(after) ==
            [after EXCEPT
                !.returned = TRUE,
                !.path = "direct",
                !.answer = _sanitize_public_answer(
                               IF response.content = <<>> THEN << <<"no_answer">> >>
                               ELSE response.content)]
    IN  answered(IF /\ st.web_results = 0
                    /\ \/ _is_price_or_availability_request(user_text)
                       \/ (st.last_rows = 0 /\ _looks_like_wine_name_or_topic(user_text))
                 THEN looked_up ELSE st)

\* Lines 1488-1676: one pass of the loop "for _ in range(3)", and the return
\* after the loop when the pass was the last one.
AskRound(response, st, user_text, public_user) ==
    LET capped(after) ==
            IF after.raised = "" /\ ~after.returned /\ after.llm_rounds >= MAX_ROUNDS
            THEN [after EXCEPT !.returned = TRUE, !.path = "round_cap",
                               !.answer = << <<"steps_exhausted">> >>]
            ELSE after
        called(counted) ==
            IF response.tool_calls = <<>> THEN DirectAnswer(response, counted, user_text)
            ELSE capped(DispatchAll(response.tool_calls,
                                    [counted EXCEPT
                                        !.messages =
                                            Append(@, AssistantMessage(response.tool_calls))],
                                    _is_full_list_request(user_text), public_user))
    IN  called([st EXCEPT !.llm_rounds = @ + 1])

\* What ask hands back once the loop has returned or raised.
AskEnd(st) == IF st.raised # "" THEN RaisedResult(st) ELSE AskResult(st.path, st.answer, st)


-----------------------------------------------------------------------------
(* app.py and console_chat.py: the context of a session.                    *)

NoContext == [last_wine_candidates |-> <<>>, pending_record_action |-> NoPending]

\* The update of the context ignores clear_pending_record_action.
update_context_state_without_clear(state, meta) ==
    [last_wine_candidates |->
         IF meta.wine_context_candidates # <<>>
         THEN SubSeq(meta.wine_context_candidates, 1,
                     Min(Len(meta.wine_context_candidates), MAX_CANDIDATES))
         ELSE state.last_wine_candidates,
     pending_record_action |->
         IF meta.set_pending_record_action.set THEN meta.set_pending_record_action
         ELSE state.pending_record_action]

\* app.py _update_context_state_from_meta, lines 88-97; console main applies
\* the same three assignments (console_chat.py lines 187-194).
\* The update dropping the Pending Action whenever the result sets none.
update_context_state_dropping_pending(state, meta) ==
    [last_wine_candidates |->
         IF meta.wine_context_candidates # <<>>
         THEN SubSeq(meta.wine_context_candidates, 1,
                     Min(Len(meta.wine_context_candidates), MAX_CANDIDATES))
         ELSE state.last_wine_candidates,
     pending_record_action |->
         IF meta.set_pending_record_action.set THEN meta.set_pending_record_action
         ELSE NoPending]

\* The update taking the candidates of the result even when it has none.
update_context_state_taking_empty(state, meta) ==
    [last_wine_candidates |->
         SubSeq(meta.wine_context_candidates, 1,
                Min(Len(meta.wine_context_candidates), MAX_CANDIDATES)),
     pending_record_action |->
         IF meta.set_pending_record_action.set THEN meta.set_pending_record_action
         ELSE IF meta.clear_pending_record_action THEN NoPending
         ELSE state.pending_record_action]

\* The update applying the clear signal after the set signal.
update_context_state_clear_last(state, meta) ==
    [last_wine_candidates |->
         IF meta.wine_context_candidates # <<>>
         THEN SubSeq(meta.wine_context_candidates, 1,
                     Min(Len(meta.wine_context_candidates), MAX_CANDIDATES))
         ELSE state.last_wine_candidates,
     pending_record_action |->
         IF meta.clear_pending_record_action THEN NoPending
         ELSE IF meta.set_pending_record_action.set THEN meta.set_pending_record_action
         ELSE state.pending_record_action]

_update_context_state_from_meta(state, meta) ==
    [last_wine_candidates |->
         IF meta.wine_context_candidates # <<>>
         THEN SubSeq(meta.wine_context_candidates, 1,
                     Min(Len(meta.wine_context_candidates), MAX_CANDIDATES))
         ELSE state.last_wine_candidates,
     pending_record_action |->
         IF meta.set_pending_record_action.set THEN meta.set_pending_record_action
         ELSE IF meta.clear_pending_record_action THEN NoPending
         ELSE state.pending_record_action]

\* console_chat.py lines 187-194: the three assignments of console main, one
\* after the other.
ConsoleUpdateContext(context, meta) ==
    LET candidates(c) ==
            IF meta.wine_context_candidates # <<>>
            THEN [c EXCEPT !.last_wine_candidates =
                               SubSeq(meta.wine_context_candidates, 1,
                                      Min(Len(meta.wine_context_candidates),
                                          MAX_CANDIDATES))]
            ELSE c
        cleared(c) ==
            IF meta.clear_pending_record_action
            THEN [c EXCEPT !.pending_record_action = NoPending]
            ELSE c
        pended(c) ==
            IF meta.set_pending_record_action.set
            THEN [c EXCEPT !.pending_record_action = meta.set_pending_record_action]
            ELSE c
    IN  pended(cleared(candidates(context)))

-----------------------------------------------------------------------------
(* Gate scenario: one execute_sql tool call of a turn, then the console's   *)
(* CSV export of the queries the turn recorded.                             *)

GateAlphabet == {"x", "DROP", "Insert", " ", "nl", ";", "--", "/*", "*/"}

GatePrefixes == {<<>>, <<"SELECT", " ">>, <<"with", " ">>}

RECURSIVE SeqsUpTo(_, _)
SeqsUpTo(S, n) ==
    IF n = 0 THEN {<<>>}
    ELSE LET shorter == SeqsUpTo(S, n - 1)
         IN  shorter \union {Append(s, l) : s \in shorter, l \in S}

RawQueries ==
    {p \o b : p \in GatePrefixes, b \in SeqsUpTo(GateAlphabet, MaxBodyLen)}
    \union {<<"SELECT", " ", "x", " ", "LIMIT", " ", "5">>,
            <<"select", " ", "x", " ", "FROM", " ", "x", ";">>}

MaxRowsInputs == {0, 200}

\* No turn has finished yet.
NoTurn ==
    [user_text |-> <<>>, context_before |-> NoContext, records_before |-> <<>>,
     result |-> AskResult("none", <<>>, AskLocals(<<>>))]

\* The console does not run in the gate scenario.
ConsoleOff ==
    /\ capabilities_text = <<>>
    /\ client = FALSE
    /\ public_records = <<>>
    /\ console_pc = "off"
    /\ context_state = NoContext
    /\ history = <<>>
    /\ console_text = <<>>
    /\ ask_locals = AskLocals(<<>>)
    /\ turns = 0
    /\ last_turn = NoTurn

\* The web front end does not run.
WebOff == requests = <<>>

\* No call of the store or of the candidate extraction is under test.
UnitOff ==
    /\ store_call = [n |-> 0]
    /\ candidate_call = [pc |-> "off"]
    /\ position_call = [pc |-> "off"]
    /\ stores = [pc |-> "off"]

GateInit ==
    /\ ConsoleOff
    /\ WebOff
    /\ UnitOff
    /\ gate_pc = "start"
    /\ raw_sql \in RawQueries
    /\ max_sql_rows \in MaxRowsInputs
    /\ storage_log = <<>>
    /\ tool_result = [ok |-> FALSE, error |-> "none", err |-> "", keyword |-> "",
                      safe_sql |-> <<>>]
    /\ sql_queries = <<>>
    /\ csv_errors = 0

\* assistant.py ask, branch execute_sql of the tool dispatch.
GateToolCall ==
    /\ gate_pc = "start"
    /\ \E db_ok \in BOOLEAN :
        \E r \in {_tool_response([json |-> "object", query |-> raw_sql],
                                  max_sql_rows, storage_log, db_ok)} :
            /\ tool_result' = [ok |-> r.ok, error |-> r.error, err |-> r.err,
                               keyword |-> r.keyword, safe_sql |-> r.safe_sql]
            /\ storage_log' = r.log
            /\ sql_queries' = IF r.ok /\ r.safe_sql # <<>>
                              THEN Append(sql_queries, r.safe_sql)
                              ELSE sql_queries
    /\ gate_pc' = "tool"
    /\ UNCHANGED <<raw_sql, max_sql_rows, csv_errors, console_vars, web_vars, unit_vars>>

\* console_chat.py main with csv_mode on, after the turn.
GateCsvExport ==
    /\ gate_pc = "tool"
    /\ \E queries \in {dedupe_keep_order(sql_queries)} :
        /\ queries # <<>>
        /\ \E fail_at \in 0..Len(queries) :
            \E r \in {CsvExport(queries, 1, storage_log, fail_at)} :
                /\ storage_log' = r.log
                /\ csv_errors' = IF r.raised THEN csv_errors + 1 ELSE csv_errors
    /\ gate_pc' = "csv"
    /\ UNCHANGED <<raw_sql, max_sql_rows, tool_result, sql_queries, console_vars,
                   web_vars, unit_vars>>

GateNext == GateToolCall \/ GateCsvExport

SpecGate == GateInit /\ [][GateNext]_vars

-----------------------------------------------------------------------------
(* Console scenario: console_chat.py main with the default switches.  A     *)
(* turn is the read of an utterance, the call of ask and the update of      *)
(* context_state and history; the backend answers between its steps.        *)

Utterances ==
    { <<"HELP">>,
      <<"postav", "layk", "2">>,
      <<"postav", "layk", "1">>,
      <<"postav", "layk", "vinu", "merlot">>,
      <<"postav", "layk", "vinu", "riesling">>,
      <<"dobav", "zametku", "vinu", "merlot">>,
      <<"dobav", "zametku", "vinu", "merlot", ":", "vkusno">>,
      <<"dobav", "zametku", "2">>,
      <<"Zametka", ":", "vkusno">>,
      <<"Zametka", ":", "1", "bokal">>,
      <<"2">>,
      <<"vtoroe">>,
      <<"5">>,
      <<"postav", "layk", "5">>,
      <<"vse">>,
      <<"postav", "layk", "vse", "pozicii">>,
      <<"layk", "2">>,
      <<"pokazhi", "moi", "layki">>,
      <<"kakie", "vina", "luchshe">>,
      <<"cena", "merlot">>,
      <<"pokazhi", "spisok", "polnostyu">> }

CapabilitiesTexts ==
    { << <<"capabilities">> >>,
      << <<"capabilities">>, <<"see", "url">>, <<"provenance", "domain">> >> }

\* Rows storage returns to a query: two wines of one name with the first one
\* twice; a row whose id is not in the catalog, a row without id and name,
\* and a row that has a name only.
RowsMerlot ==
    << [wine_id |-> "w1", card_key |-> "", wine_name |-> "merlot", url |-> ""],
       [wine_id |-> "w2", card_key |-> "", wine_name |-> "merlot", url |-> ""],
       [wine_id |-> "w1", card_key |-> "", wine_name |-> "merlot", url |-> ""] >>

RowsMixed ==
    << [wine_id |-> "w9", card_key |-> "", wine_name |-> "tokay", url |-> ""],
       NoRow,
       [wine_id |-> "", card_key |-> "", wine_name |-> "riesling", url |-> ""] >>

SelectQuery == <<"SELECT", " ", "x">>

ToolCall(name, json) ==
    [id |-> 0, name |-> name, json |-> json, query |-> <<>>, db_ok |-> TRUE,
     rows |-> <<>>, int_ok |-> TRUE, web_ok |-> TRUE, hits |-> 0,
     wine_id |-> "", record_type |-> "", content |-> <<>>]

SqlCall(query, db_ok, rows) ==
    [ToolCall("execute_sql", "object") EXCEPT
        !.query = query, !.db_ok = db_ok, !.rows = rows]

AddCall(wine_id, record_type) ==
    [ToolCall("add_public_record", "object") EXCEPT
        !.wine_id = wine_id, !.record_type = record_type]

ToolCalls ==
    { SqlCall(SelectQuery, TRUE, RowsMerlot),
      SqlCall(SelectQuery, TRUE, RowsMixed),
      SqlCall(SelectQuery, TRUE, <<>>),
      SqlCall(SelectQuery, FALSE, <<>>),
      SqlCall(<<"DROP", " ", "x">>, TRUE, <<>>),
      ToolCall("execute_sql", "malformed"),
      ToolCall("execute_sql", "not_object"),
      [ToolCall("search_web", "object") EXCEPT !.hits = 1],
      [ToolCall("search_web", "object") EXCEPT !.web_ok = FALSE],
      [ToolCall("search_web", "object") EXCEPT !.int_ok = FALSE],
      AddCall("w3", "like"),
      AddCall("w9", "like"),
      ToolCall("list_public_records", "object"),
      ToolCall("get_wine_public_summary", "not_object"),
      ToolCall("no_such_tool", "object") }

\* The backend names the tool calls of a response: here by their place.
Response(tool_calls, content, fallback_ok) ==
    [tool_calls |-> [k \in 1..Len(tool_calls) |-> [tool_calls[k] EXCEPT !.id = k]],
     content |-> content, fallback_ok |-> fallback_ok]

Responses ==
    { Response(<<>>, << <<"answer">> >>, TRUE),
      Response(<<>>, <<>>, FALSE),
      Response(<<>>, << <<"answer", "url">>, <<"provenance", "www">>, <<"link">> >>,
               TRUE) }
    \union { Response(<<c>>, <<>>, FALSE) : c \in ToolCalls }
    \union { Response(<<SqlCall(SelectQuery, TRUE, RowsMerlot),
                        ToolCall("execute_sql", "not_object")>>, <<>>, FALSE) }
    \union { Response(<<SqlCall(<<"DROP", " ", "x">>, TRUE, <<>>),
                        SqlCall(SelectQuery, TRUE, RowsMixed),
                        AddCall("w3", "like")>>, <<>>, FALSE) }

\* The backend of the console scenario: an answer with links, no answer, two
\* queries that succeed and a tool call whose arguments are a JSON list.
ConsoleResponses ==
    { Response(<<>>, << <<"answer", "url">>, <<"provenance", "www">>, <<"link">> >>,
               TRUE),
      Response(<<>>, <<>>, FALSE),
      Response(<<SqlCall(SelectQuery, TRUE, RowsMerlot)>>, <<>>, FALSE),
      Response(<<SqlCall(SelectQuery, TRUE, RowsMixed)>>, <<>>, FALSE),
      Response(<<ToolCall("execute_sql", "not_object")>>, <<>>, FALSE) }

GateOff ==
    /\ gate_pc = "off"
    /\ raw_sql = <<>>
    /\ max_sql_rows = MAX_SQL_ROWS
    /\ storage_log = <<>>
    /\ tool_result = [ok |-> FALSE, error |-> "none", err |-> "", keyword |-> "",
                      safe_sql |-> <<>>]
    /\ sql_queries = <<>>
    /\ csv_errors = 0

ConsoleInit ==
    /\ GateOff
    /\ WebOff
    /\ UnitOff
    /\ capabilities_text \in CapabilitiesTexts
    /\ client \in BOOLEAN
    /\ public_records = <<>>
    /\ console_pc = "input"
    /\ context_state = NoContext
    /\ history = <<>>
    /\ console_text = <<>>
    /\ ask_locals = AskLocals(<<>>)
    /\ turns = 0
    /\ last_turn = NoTurn

\* console_chat.py lines 187-197: the turn ends with the result of ask.
ConsoleFinish(text, result) ==
    /\ context_state' = _update_context_state_from_meta(context_state, result)
    /\ history' = history \o << [role |-> "user", content |-> <<text>>],
                                [role |-> "assistant", content |-> result.answer] >>
    /\ public_records' = result.records
    /\ last_turn' = [user_text |-> text, context_before |-> context_state,
                     records_before |-> public_records, result |-> result]
    /\ console_pc' = "input"
    /\ console_text' = <<>>
    /\ ask_locals' = AskLocals(<<>>)

\* console_chat.py lines 129-185: an utterance is read and ask is called; the
\* turn ends here when ask answers without the backend.
ConsoleInput(max_turns) ==
    /\ console_pc = "input"
    /\ turns < max_turns
    /\ turns' = turns + 1
    /\ \E text \in Utterances :
        \E begun \in {AskBegin(text, GUEST, context_state, public_records,
                               capabilities_text, client)} :
            IF begun.path = "loop"
            THEN /\ console_pc' = "asking"
                 /\ console_text' = text
                 /\ ask_locals' = AskLocals(public_records)
                 /\ last_turn' = NoTurn
                 /\ UNCHANGED <<context_state, history, public_records>>
            ELSE ConsoleFinish(text, begun)
    /\ UNCHANGED <<gate_vars, capabilities_text, client, web_vars, unit_vars>>

\* One backend call of ask and the dispatch of its tool calls.  ask raising
\* ends console main: the loop has no handler around the call.
ConsoleRound(responses) ==
    /\ console_pc = "asking"
    /\ \E response \in responses :
        \E st \in {AskRound(response, ask_locals, console_text, GUEST)} :
            IF st.raised # ""
            THEN /\ console_pc' = "crashed"
                 /\ public_records' = st.records
                 /\ last_turn' = [user_text |-> console_text,
                                  context_before |-> context_state,
                                  records_before |-> public_records,
                                  result |-> AskEnd(st)]
                 /\ ask_locals' = st
                 /\ UNCHANGED <<context_state, history, console_text>>
            ELSE IF st.returned
            THEN ConsoleFinish(console_text, AskEnd(st))
            ELSE /\ ask_locals' = st
                 /\ public_records' = st.records
                 /\ UNCHANGED <<context_state, history, console_text, console_pc,
                                last_turn>>
    /\ UNCHANGED <<gate_vars, capabilities_text, client, turns, web_vars, unit_vars>>

\* console_chat.py lines 142-147: the command /clear.
ConsoleClear ==
    /\ console_pc = "input"
    /\ history # <<>>
    /\ history' = <<>>
    /\ context_state' = NoContext
    /\ UNCHANGED <<gate_vars, capabilities_text, client, public_records,
                   console_pc, console_text, ask_locals, turns, last_turn, web_vars,
                   unit_vars>>

ConsoleNext == ConsoleInput(MaxTurns) \/ ConsoleRound(ConsoleResponses) \/ ConsoleClear

SpecConsole == ConsoleInit /\ [][ConsoleNext]_vars

\* One turn of a fresh console against every response of the backend.
AskNext == ConsoleInput(1) \/ ConsoleRound(Responses)

SpecAsk == ConsoleInit /\ [][AskNext]_vars

\* The backend of the failure scenario: an answer, a query on which storage
\* raises and a lookup whose provider fails.
DownResponses ==
    { Response(<<>>, << <<"answer">> >>, TRUE),
      Response(<<SqlCall(SelectQuery, FALSE, <<>>)>>, <<>>, FALSE),
      Response(<<[ToolCall("search_web", "object") EXCEPT !.web_ok = FALSE]>>, <<>>,
               FALSE) }

\* console_chat.py lines 129-185 while a collaborator is down: ask raising
\* ends console main.
ConsoleInputDown ==
    /\ console_pc = "input"
    /\ turns < 1
    /\ turns' = turns + 1
    /\ \E text \in Utterances, down \in {"storage", "store"} :
        \E begun \in {AskBeginDown(text, GUEST, context_state, public_records,
                                   capabilities_text, client, down)} :
            IF begun.raised # ""
            THEN /\ console_pc' = "crashed"
                 /\ console_text' = text
                 /\ last_turn' = [user_text |-> text, context_before |-> context_state,
                                  records_before |-> public_records, result |-> begun]
                 /\ UNCHANGED <<context_state, history, public_records, ask_locals>>
            ELSE IF begun.path = "loop"
            THEN /\ console_pc' = "asking"
                 /\ console_text' = text
                 /\ ask_locals' = AskLocals(public_records)
                 /\ last_turn' = NoTurn
                 /\ UNCHANGED <<context_state, history, public_records>>
            ELSE ConsoleFinish(text, begun)
    /\ UNCHANGED <<gate_vars, capabilities_text, client, web_vars, unit_vars>>

\* One turn of a fresh console while storage or the annotation store is down.
DownNext == ConsoleInputDown \/ ConsoleRound(DownResponses)

SpecDown == ConsoleInit /\ [][DownNext]_vars

\* The candidate lists a session holds after a turn with a query: none,
\* the one of RowsMerlot and the one of RowsMixed.
SessionLists ==
    { <<>>, _extract_wine_candidates_from_rows(RowsMerlot),
      _extract_wine_candidates_from_rows(RowsMixed) }

\* The session of the console after a turn with a query that left the list
\* candidates (when it is not empty) and one more turn with the utterance
\* text, which the backend, if it is reached, answers at once.
SessionAfter(candidates, text, capabilities, has_client) ==
    LET record_context == [NoContext EXCEPT !.last_wine_candidates = candidates]
        turn(content, answer) ==
            << [role |-> "user", content |-> <<content>>],
               [role |-> "assistant", content |-> answer] >>
        earlier ==
            IF candidates = <<>> THEN <<>>
            ELSE turn(<<"kakie", "vina", "luchshe">>, << <<"answer">> >>)
        ended(begun) ==
            [context_state |-> _update_context_state_from_meta(record_context, begun),
             public_records |-> begun.records,
             history |-> earlier \o turn(text, IF begun.path = "loop"
                                              THEN << <<"answer">> >>
                                              ELSE begun.answer)]
    IN  ended(AskBegin(text, GUEST, record_context, <<>>, capabilities, has_client))

\* Follow-up scenario: one turn of a console whose session has a list of
\* candidates and has had a turn of the annotation handler.
FollowUpInit ==
    /\ GateOff
    /\ WebOff
    /\ UnitOff
    /\ capabilities_text \in CapabilitiesTexts
    /\ \E candidates \in SessionLists, text \in Utterances :
        /\ client \in IF candidates = <<>> THEN BOOLEAN ELSE {TRUE}
        /\ \E session \in {SessionAfter(candidates, text, capabilities_text, client)} :
            /\ context_state = session.context_state
            /\ public_records = session.public_records
            /\ history = session.history
    /\ console_pc = "input"
    /\ console_text = <<>>
    /\ ask_locals = AskLocals(<<>>)
    /\ turns = 0
    /\ last_turn = NoTurn

FollowUpNext == ConsoleInput(1) \/ ConsoleRound(ConsoleResponses)

SpecFollowUp == FollowUpInit /\ [][FollowUpNext]_vars

-----------------------------------------------------------------------------
(* Web scenario: app.py chat for the requests of one session.  A worker     *)
(* thread serves one request at a time; history and context_state stand for *)
(* CHAT_STORE[sid] and CONTEXT_STORE[sid].  A step is one section under     *)
(* LOCK, or the part of ask between two calls of the backend, which runs    *)
(* outside LOCK.                                                            *)

Workers == {"t1", "t2"}

MAX_HISTORY_ITEMS == 24

WebMessages ==
    { <<"postav", "layk", "vinu", "merlot">>,
      <<"2">>,
      <<"kakie", "vina", "luchshe">> }

\* The backend of the web scenario: an answer, a tool call whose arguments
\* are a JSON list, and a query that succeeds followed by such a tool call.
WebResponses ==
    { Response(<<>>, << <<"answer">> >>, TRUE),
      Response(<<ToolCall("execute_sql", "not_object")>>, <<>>, FALSE),
      Response(<<SqlCall(SelectQuery, TRUE, RowsMerlot),
                 ToolCall("execute_sql", "not_object")>>, <<>>, FALSE) }

Idle ==
    [pc |-> "idle", message |-> <<>>, history |-> <<>>, context_state |-> NoContext,
     ask_locals |-> AskLocals(<<>>), result |-> AskResult("none", <<>>, AskLocals(<<>>))]

\* _append_history that keeps the oldest entries.
append_history_keeping_oldest(items, role, content) ==
    LET trimmed(appended) ==
            IF Len(appended) > MAX_HISTORY_ITEMS
            THEN SubSeq(appended, 1, MAX_HISTORY_ITEMS)
            ELSE appended
    IN  trimmed(Append(items, [role |-> role, content |-> content]))

\* app.py _append_history.
_append_history(items, role, content) ==
    LET trimmed(appended) ==
            IF Len(appended) > MAX_HISTORY_ITEMS
            THEN SubSeq(appended, Len(appended) - MAX_HISTORY_ITEMS + 1, Len(appended))
            ELSE appended
    IN  trimmed(Append(items, [role |-> role, content |-> content]))

WebInit ==
    /\ GateOff
    /\ UnitOff
    /\ capabilities_text = << <<"capabilities">> >>
    /\ client = TRUE
    /\ public_records = <<>>
    /\ console_pc = "off"
    /\ context_state = NoContext
    /\ history = <<>>
    /\ console_text = <<>>
    /\ ask_locals = AskLocals(<<>>)
    /\ turns = 0
    /\ last_turn = NoTurn
    /\ requests = [w \in Workers |-> Idle]

\* Lines 179-188: a request arrives and the worker copies the history.
ChatReadHistory(w) ==
    /\ requests[w].pc = "idle"
    /\ turns < MaxRequests
    /\ turns' = turns + 1
    /\ \E message \in WebMessages :
        requests' = [requests EXCEPT ![w] = [Idle EXCEPT !.pc = "read_context",
                                                         !.message = message,
                                                         !.history = history]]
    /\ UNCHANGED <<gate_vars, capabilities_text, client, public_records, console_pc,
                   context_state, history, console_text, ask_locals, last_turn,
                   unit_vars>>

\* Line 189: the worker copies the context of the session.
ChatReadContext(w) ==
    /\ requests[w].pc = "read_context"
    /\ requests' = [requests EXCEPT ![w].pc = "append_user",
                                    ![w].context_state = context_state]
    /\ UNCHANGED <<gate_vars, console_vars, unit_vars>>

\* Line 190.
ChatAppendUser(w) ==
    /\ requests[w].pc = "append_user"
    /\ history' = _append_history(history, "user", <<requests[w].message>>)
    /\ requests' = [requests EXCEPT ![w].pc = "ask"]
    /\ UNCHANGED <<gate_vars, capabilities_text, client, public_records, console_pc,
                   context_state, console_text, ask_locals, turns, last_turn, unit_vars>>

\* Lines 194-200: ask is called with the copies; it returns here when it
\* answers without the backend.
ChatAsk(w) ==
    /\ requests[w].pc = "ask"
    /\ \E begun \in {AskBegin(requests[w].message, GUEST, requests[w].context_state,
                              public_records, capabilities_text, client)} :
        IF begun.path = "loop"
        THEN /\ requests' = [requests EXCEPT ![w].pc = "asking",
                                             ![w].ask_locals = AskLocals(public_records)]
             /\ UNCHANGED public_records
        ELSE /\ requests' = [requests EXCEPT ![w].pc = "update", ![w].result = begun]
             /\ public_records' = begun.records
    /\ UNCHANGED <<gate_vars, capabilities_text, client, console_pc, context_state,
                   history, console_text, ask_locals, turns, last_turn, unit_vars>>

\* One backend call of ask and the dispatch of its tool calls; ask raising is
\* caught at lines 206-208 and the context is not updated.
ChatRound(w) ==
    /\ requests[w].pc = "asking"
    /\ \E response \in WebResponses :
        \E st \in {AskRound(response,
                            [requests[w].ask_locals EXCEPT !.records = public_records],
                            requests[w].message, GUEST)} :
            /\ public_records' = st.records
            /\ requests' =
                   IF st.raised # ""
                   THEN [requests EXCEPT ![w].pc = "append_assistant",
                                         ![w].ask_locals = AskLocals(<<>>),
                                         ![w].result =
                                             [AskEnd(st) EXCEPT
                                                 !.answer = << <<"request_error">> >>]]
                   ELSE IF st.returned
                   THEN [requests EXCEPT ![w].pc = "update",
                                         ![w].ask_locals = AskLocals(<<>>),
                                         ![w].result = AskEnd(st)]
                   ELSE [requests EXCEPT ![w].ask_locals = st]
    /\ UNCHANGED <<gate_vars, capabilities_text, client, console_pc, context_state,
                   history, console_text, ask_locals, turns, last_turn, unit_vars>>

\* Line 204: _update_context_state_from_meta under LOCK.
ChatUpdateContext(w) ==
    /\ requests[w].pc = "update"
    /\ context_state' = _update_context_state_from_meta(context_state,
                                                        requests[w].result)
    /\ requests' = [requests EXCEPT ![w].pc = "append_assistant"]
    /\ UNCHANGED <<gate_vars, capabilities_text, client, public_records, console_pc,
                   history, console_text, ask_locals, turns, last_turn, unit_vars>>

\* Lines 238-239: the answer joins the history and the request is done.
ChatAppendAssistant(w) ==
    /\ requests[w].pc = "append_assistant"
    /\ history' = _append_history(history, "assistant", requests[w].result.answer)
    /\ last_turn' = [user_text |-> requests[w].message,
                     context_before |-> requests[w].context_state,
                     records_before |-> <<>>,
                     result |-> requests[w].result]
    /\ requests' = [requests EXCEPT ![w] = Idle]
    /\ UNCHANGED <<gate_vars, capabilities_text, client, public_records, console_pc,
                   context_state, console_text, ask_locals, turns, unit_vars>>

WebNext ==
    \E w \in Workers :
        \/ ChatReadHistory(w)
        \/ ChatReadContext(w)
        \/ ChatAppendUser(w)
        \/ ChatAsk(w)
        \/ ChatRound(w)
        \/ ChatUpdateContext(w)
        \/ ChatAppendAssistant(w)

SpecWeb == WebInit /\ [][WebNext]_vars

-----------------------------------------------------------------------------
(* Store scenario: calls of PublicRecordsDB.add_record on a store that      *)
(* starts empty.  "" stands for a missing user or content as well.          *)

StoreUsers == {"", "anna"}

StoreRecordTypes == {"like", "note", "Like", "rating"}

StoreContents == {<<>>, <<" ">>, <<"vkusno">>, <<" ", "vkusno", " ">>}

StoreWineIds == {"", "w1", " w1 ", "u2", "w9"}

StoreInit ==
    /\ GateOff
    /\ ConsoleOff
    /\ WebOff
    /\ store_call = [n |-> 0]
    /\ candidate_call = [pc |-> "off"]
    /\ position_call = [pc |-> "off"]
    /\ stores = [pc |-> "off"]

\* public_records_db.py lines 70-103.
StoreAddRecord ==
    /\ store_call.n < MaxStoreCalls
    /\ \E user \in StoreUsers, record_type \in StoreRecordTypes,
          content \in StoreContents, wine_id \in StoreWineIds :
        \E r \in {add_record(user, record_type, content, wine_id, public_records)} :
            /\ public_records' = r.records
            /\ store_call' = [n |-> store_call.n + 1, user |-> user,
                              record_type |-> record_type, content |-> content,
                              wine_id |-> wine_id, ok |-> r.ok, error |-> r.error,
                              records_before |-> public_records]
    /\ UNCHANGED <<gate_vars, capabilities_text, client, console_pc, context_state,
                   history, console_text, ask_locals, turns, last_turn, web_vars,
                   candidate_call, position_call, stores>>

StoreNext == StoreAddRecord

SpecStore == StoreInit /\ [][StoreNext]_vars

-----------------------------------------------------------------------------
(* Position scenario: one call of _extract_position_refs on an utterance    *)
(* and a list size; the size 0 stands for None.                             *)

PositionWords ==
    {"pervye", "poslednie", "dve", "tridcat", "po", "-", "2", "4", "vtoroe",
     "99999999999999999999"}

PositionHeads == {<<>>, <<"layk">>, <<"s">>, <<"vse", "pozicii">>}

PositionInit ==
    /\ GateOff
    /\ ConsoleOff
    /\ WebOff
    /\ store_call = [n |-> 0]
    /\ candidate_call = [pc |-> "off"]
    /\ stores = [pc |-> "off"]
    /\ \E head \in PositionHeads, tail \in SeqsUpTo(PositionWords, MaxPositionWords) :
           \E max_count \in 0..MaxListSize :
               position_call = [pc |-> "start", text |-> head \o tail,
                                max_count |-> max_count]

\* assistant.py lines 606-720.
PositionExtract ==
    /\ position_call.pc = "start"
    /\ position_call' =
           IF PositionRefsRaise(position_call.text, position_call.max_count)
           THEN [pc |-> "raised", text |-> position_call.text,
                 max_count |-> position_call.max_count, error |-> "OverflowError"]
           ELSE [pc |-> "done", text |-> position_call.text,
                 max_count |-> position_call.max_count,
                 refs |-> _extract_position_refs(position_call.text,
                                                 position_call.max_count)]
    /\ UNCHANGED <<gate_vars, console_vars, web_vars, store_call, candidate_call,
                   stores>>

PositionNext == PositionExtract

SpecPositions == PositionInit /\ [][PositionNext]_vars

-----------------------------------------------------------------------------
(* History scenario: app.py _append_history for the messages of two         *)
(* sessions.  The n-th message of a session has the content n; the user and *)
(* the assistant write in turn.  appended counts the messages of a session. *)

Sessions == {"sid1", "sid2"}

HistoryInit ==
    /\ GateOff
    /\ ConsoleOff
    /\ WebOff
    /\ store_call = [n |-> 0]
    /\ candidate_call = [pc |-> "off"]
    /\ position_call = [pc |-> "off"]
    /\ stores = [pc |-> "history",
                 CHAT_STORE |-> [sid \in Sessions |-> <<>>],
                 appended |-> [sid \in Sessions |-> 0]]

\* app.py lines 60-65, under LOCK.
HistoryAppend(sid) ==
    /\ stores.pc = "history"
    /\ stores.appended[sid] < MaxAppends
    /\ stores' =
           [stores EXCEPT
               !.CHAT_STORE[sid] =
                   _append_history(@, IF stores.appended[sid] % 2 = 0 THEN "user"
                                      ELSE "assistant",
                                   stores.appended[sid] + 1),
               !.appended[sid] = @ + 1]
    /\ UNCHANGED <<gate_vars, console_vars, web_vars, store_call, candidate_call,
                   position_call>>

HistoryNext == \E sid \in Sessions : HistoryAppend(sid)

SpecHistory == HistoryInit /\ [][HistoryNext]_vars

-----------------------------------------------------------------------------
(* Sessions scenario: app.py chat for the requests of two sessions, each    *)
(* served by a worker thread.  The steps are those of the web scenario; the *)
(* stores are keyed by the session id of the request.                       *)

SessionMessages ==
    { <<"postav", "layk", "vinu", "merlot">>,
      <<"kakie", "vina", "luchshe">> }

SessionResponses ==
    { Response(<<>>, << <<"answer">> >>, TRUE),
      Response(<<SqlCall(SelectQuery, TRUE, RowsMerlot)>>, <<>>, FALSE) }

IdleRequest ==
    [pc |-> "idle", sid |-> "", message |-> <<>>, history |-> <<>>,
     context_state |-> NoContext, ask_locals |-> AskLocals(<<>>),
     result |-> AskResult("none", <<>>, AskLocals(<<>>))]

\* CONTEXT_STORE.setdefault(sid, ...) updated from meta, for all sessions.
StoreContext_for_all(store, sid, meta) ==
    [other \in DOMAIN store |-> _update_context_state_from_meta(store[other], meta)]

\* app.py lines 79-97: CONTEXT_STORE.setdefault(sid, ...) updated from meta.
StoreContext(store, sid, meta) ==
    [store EXCEPT ![sid] = _update_context_state_from_meta(@, meta)]

SessionsInit ==
    /\ GateOff
    /\ WebOff
    /\ store_call = [n |-> 0]
    /\ candidate_call = [pc |-> "off"]
    /\ position_call = [pc |-> "off"]
    /\ capabilities_text = << <<"capabilities">> >>
    /\ client = TRUE
    /\ public_records = <<>>
    /\ console_pc = "off"
    /\ context_state = NoContext
    /\ history = <<>>
    /\ console_text = <<>>
    /\ ask_locals = AskLocals(<<>>)
    /\ turns = 0
    /\ last_turn = NoTurn
    /\ stores = [pc |-> "sessions",
                 CHAT_STORE |-> [sid \in Sessions |-> <<>>],
                 CONTEXT_STORE |-> [sid \in Sessions |-> NoContext],
                 requests |-> [w \in Workers |-> IdleRequest]]

\* Lines 187-190: a request of a session arrives; the worker copies the
\* history and the context of the session and appends the message.
SessionBegin(w) ==
    /\ stores.pc = "sessions"
    /\ stores.requests[w].pc = "idle"
    /\ turns < MaxSessionRequests
    /\ turns' = turns + 1
    /\ \E sid \in Sessions, message \in SessionMessages :
        stores' =
            [stores EXCEPT
                !.CHAT_STORE[sid] = _append_history(@, "user", <<message>>),
                !.requests[w] =
                    [IdleRequest EXCEPT
                        !.pc = "ask", !.sid = sid, !.message = message,
                        !.history = stores.CHAT_STORE[sid],
                        !.context_state = stores.CONTEXT_STORE[sid]]]
    /\ UNCHANGED <<gate_vars, capabilities_text, client, public_records, console_pc,
                   context_state, history, console_text, ask_locals, last_turn,
                   web_vars, store_call, candidate_call, position_call>>

\* Lines 194-200: ask is called with the copies.
SessionAsk(w) ==
    /\ stores.pc = "sessions"
    /\ stores.requests[w].pc = "ask"
    /\ \E begun \in {AskBegin(stores.requests[w].message, GUEST,
                              stores.requests[w].context_state,
                              public_records, capabilities_text, client)} :
        IF begun.path = "loop"
        THEN /\ stores' = [stores EXCEPT
                               !.requests[w].pc = "asking",
                               !.requests[w].ask_locals = AskLocals(public_records)]
             /\ UNCHANGED public_records
        ELSE /\ stores' = [stores EXCEPT !.requests[w].pc = "update",
                                         !.requests[w].result = begun]
             /\ public_records' = begun.records
    /\ UNCHANGED <<gate_vars, capabilities_text, client, console_pc, context_state,
                   history, console_text, ask_locals, turns, last_turn, web_vars,
                   store_call, candidate_call, position_call>>

\* One backend call of ask and the dispatch of its tool calls.
SessionRound(w) ==
    /\ stores.pc = "sessions"
    /\ stores.requests[w].pc = "asking"
    /\ \E response \in SessionResponses :
        \E st \in {AskRound(response,
                            [stores.requests[w].ask_locals EXCEPT
                                !.records = public_records],
                            stores.requests[w].message, GUEST)} :
            /\ public_records' = st.records
            /\ stores' =
                   IF st.raised # ""
                   THEN [stores EXCEPT
                            !.requests[w].pc = "append_assistant",
                            !.requests[w].ask_locals = AskLocals(<<>>),
                            !.requests[w].result =
                                [AskEnd(st) EXCEPT !.answer = << <<"request_error">> >>]]
                   ELSE IF st.returned
                   THEN [stores EXCEPT
                            !.requests[w].pc = "update",
                            !.requests[w].ask_locals = AskLocals(<<>>),
                            !.requests[w].result = AskEnd(st)]
                   ELSE [stores EXCEPT !.requests[w].ask_locals = st]
    /\ UNCHANGED <<gate_vars, capabilities_text, client, console_pc, context_state,
                   history, console_text, ask_locals, turns, last_turn, web_vars,
                   store_call, candidate_call, position_call>>

\* Line 204: _update_context_state_from_meta(sid, meta) under LOCK.
SessionUpdateContext(w) ==
    /\ stores.pc = "sessions"
    /\ stores.requests[w].pc = "update"
    /\ stores' = [stores EXCEPT
                      !.CONTEXT_STORE = StoreContext(@, stores.requests[w].sid,
                                                     stores.requests[w].result),
                      !.requests[w].pc = "append_assistant"]
    /\ UNCHANGED <<gate_vars, console_vars, web_vars, store_call, candidate_call,
                   position_call>>

\* Lines 238-239: the answer joins the history of the session.
SessionAppendAssistant(w) ==
    /\ stores.pc = "sessions"
    /\ stores.requests[w].pc = "append_assistant"
    /\ stores' = [stores EXCEPT
                      !.CHAT_STORE[stores.requests[w].sid] =
                          _append_history(@, "assistant",
                                          stores.requests[w].result.answer),
                      !.requests[w] = IdleRequest]
    /\ UNCHANGED <<gate_vars, console_vars, web_vars, store_call, candidate_call,
                   position_call>>

SessionsNext ==
    \E w \in Workers :
        \/ SessionBegin(w)
        \/ SessionAsk(w)
        \/ SessionRound(w)
        \/ SessionUpdateContext(w)
        \/ SessionAppendAssistant(w)

SpecSessions == SessionsInit /\ [][SessionsNext]_vars

-----------------------------------------------------------------------------
(* Context scenario: one update of the context of a session from the meta   *)
(* of a turn, by the web front end (app.py _update_context_state_from_meta) *)
(* or by the console (console_chat.py main), for every combination of the   *)
(* three keys the update reads.                                             *)

ContextPendings ==
    { NoPending,
      [NoPending EXCEPT !.set = TRUE, !.record_type = "like",
                        !.reference = <<"merlot">>],
      [NoPending EXCEPT !.set = TRUE, !.record_type = "note",
                        !.content = <<"vkusno">>] }

ContextCandidates ==
    { <<>>,
      << [wine_id |-> "w1", wine_name |-> "merlot", url |-> ""] >>,
      << [wine_id |-> "w2", wine_name |-> "merlot", url |-> ""],
         [wine_id |-> "w3", wine_name |-> "riesling", url |-> ""] >> }

ContextInit ==
    /\ GateOff
    /\ ConsoleOff
    /\ WebOff
    /\ store_call = [n |-> 0]
    /\ candidate_call = [pc |-> "off"]
    /\ position_call = [pc |-> "off"]
    /\ \E pending, set \in ContextPendings, shown, found \in ContextCandidates,
          clear \in BOOLEAN, front \in {"app", "console"} :
          stores = [pc |-> "meta", front |-> front,
                    before |-> [last_wine_candidates |-> shown,
                                pending_record_action |-> pending],
                    meta |-> [wine_context_candidates |-> found,
                              set_pending_record_action |-> set,
                              clear_pending_record_action |-> clear],
                    state |-> [last_wine_candidates |-> shown,
                               pending_record_action |-> pending]]

\* app.py line 204: chat hands the meta of ask to
\* _update_context_state_from_meta.
ContextUpdateApp ==
    /\ stores.pc = "meta"
    /\ stores.front = "app"
    /\ stores' = [stores EXCEPT
                     !.pc = "updated",
                     !.state = _update_context_state_from_meta(@, stores.meta)]
    /\ UNCHANGED <<gate_vars, console_vars, web_vars, store_call, candidate_call,
                   position_call>>

\* console_chat.py lines 187-194.
ContextUpdateConsole ==
    /\ stores.pc = "meta"
    /\ stores.front = "console"
    /\ stores' = [stores EXCEPT
                     !.pc = "updated",
                     !.state = ConsoleUpdateContext(@, stores.meta)]
    /\ UNCHANGED <<gate_vars, console_vars, web_vars, store_call, candidate_call,
                   position_call>>

ContextNext == ContextUpdateApp \/ ContextUpdateConsole

SpecContext == ContextInit /\ [][ContextNext]_vars

-----------------------------------------------------------------------------
(* Candidate scenario: one call of _extract_wine_candidates_from_rows on    *)
(* the rows of a query result, then the normalization of the references it  *)
(* returned, as the annotation handler does with the candidates of the      *)
(* session (assistant.py line 1086).                                        *)

\* Result rows: an id, a card_key with name and url, a url alone, a name
\* alone, an id the catalog does not hold, a row without any of them, and
\* an id with blanks around it.
CandidateRows ==
    { [wine_id |-> "w1", card_key |-> "", wine_name |-> "", url |-> ""],
      [wine_id |-> "", card_key |-> "w2", wine_name |-> "merlot", url |-> "u2"],
      [wine_id |-> "", card_key |-> "", wine_name |-> "", url |-> "u1"],
      [wine_id |-> "", card_key |-> "", wine_name |-> "riesling", url |-> ""],
      [wine_id |-> "w9", card_key |-> "", wine_name |-> "tokay", url |-> ""],
      NoRow,
      [wine_id |-> " w1 ", card_key |-> "", wine_name |-> "", url |-> ""] }

CandidateInit ==
    /\ GateOff
    /\ ConsoleOff
    /\ WebOff
    /\ store_call = [n |-> 0]
    /\ position_call = [pc |-> "off"]
    /\ stores = [pc |-> "off"]
    /\ \E rows \in SeqsUpTo(CandidateRows, MaxCandidateRows) :
           candidate_call = [pc |-> "start", rows |-> rows]

\* assistant.py lines 839-850.
CandidateExtract ==
    /\ candidate_call.pc = "start"
    /\ candidate_call' =
           [pc |-> "extracted", rows |-> candidate_call.rows,
            candidates |-> _extract_wine_candidates_from_rows(candidate_call.rows)]
    /\ UNCHANGED <<gate_vars, console_vars, web_vars, store_call, position_call,
                   stores>>

\* assistant.py lines 794-837 on each reference of the list.
CandidateNormalize ==
    /\ candidate_call.pc = "extracted"
    /\ candidate_call' =
           [pc |-> "done", rows |-> candidate_call.rows,
            candidates |-> candidate_call.candidates,
            normalized |-> [i \in 1..Len(candidate_call.candidates) |->
                               _normalize_candidate(AsRow(candidate_call.candidates[i]))]]
    /\ UNCHANGED <<gate_vars, console_vars, web_vars, store_call, position_call,
                   stores>>

CandidateNext == CandidateExtract \/ CandidateNormalize

SpecCandidates == CandidateInit /\ [][CandidateNext]_vars

-----------------------------------------------------------------------------
(* Properties of the safety gate *)

Range(f) == {f[i] : i \in DOMAIN f}

\* kw occurs in t as a whole word, in any letter case.
HasWholeWord(t, kw) ==
    \E i \in 1..Len(t) :
        /\ LowerLexeme(t[i]) = kw
        /\ (i = 1 \/ ~IsWord(t[i - 1]))
        /\ (i = Len(t) \/ ~IsWord(t[i + 1]))

PositiveNumerals ==
    {ToString(n) : n \in {m \in MaxRowsInputs \union {1, CSV_MAX_ROWS} : m >= 1}}

\* t is SELECT * FROM (<v>) AS _result LIMIT <n> with n >= 1.
IsWrapped(t) ==
    /\ Len(t) >= Len(OuterOpen) + Len(OuterClose) + 1
    /\ SubSeq(t, 1, Len(OuterOpen)) = OuterOpen
    /\ SubSeq(t, Len(t) - Len(OuterClose), Len(t) - 1) = OuterClose
    /\ t[Len(t)] \in PositiveNumerals

Inner(t) == SubSeq(t, Len(OuterOpen) + 1, Len(t) - Len(OuterClose) - 1)

IsReadOnlyStatement(v) ==
    /\ \A i \in 1..Len(v) : v[i] # ";"
    /\ v # <<>>
    /\ LowerLexeme(v[1]) \in {"select", "with"}
    /\ (Len(v) = 1 \/ ~IsWord(v[2]))
    /\ \A kw \in Range(FORBIDDEN_KEYWORDS) : ~HasWholeWord(v, kw)

\* C1: every text execute_safe_query hands to storage has the form
\* SELECT * FROM (<v>) ... LIMIT <n> with n >= 1, where <v> holds no ';',
\* begins with SELECT or WITH and holds no forbidden keyword as a whole
\* word; a raw query the gate rejects is never handed to storage.
C1_OnlyGateOutputReachesStorage ==
    /\ \A i \in 1..Len(storage_log) :
        IsWrapped(storage_log[i]) /\ IsReadOnlyStatement(Inner(storage_log[i]))
    /\ (gate_pc # "start" /\ tool_result.error \in {"SQLValidationError", "empty_query"})
           => storage_log = <<>>
    /\ storage_log # <<>> => storage_log[1] = build_safe_sql(raw_sql, max_sql_rows).sql

\* C1 witness: a query whose comment held a forbidden keyword was executed
\* after the comment was stripped.
C1_Witness ==
    /\ storage_log # <<>>
    /\ HasWholeWord(raw_sql, "drop")
    /\ \E i \in 1..Len(raw_sql) : raw_sql[i] = "*/"

\* The text the denylist and the SELECT/WITH check look at.
GateText == Strip(RStripSemicolons(Strip(_strip_comments(raw_sql))))

C3_WrappedExactlyOnce ==
    \A i \in 1..Len(storage_log) :
        IsWrapped(storage_log[i]) /\ ~IsWrapped(Inner(storage_log[i]))

\* C4 (as stated): the multi-statement rejection happens exactly when a ';'
\* remains after the comment-stripped, trimmed text loses ONE trailing ';'.
C4_OneTerminatorTrimmed ==
    gate_pc # "start" =>
        LET s == Strip(_strip_comments(raw_sql))
            one == IF s # <<>> /\ s[Len(s)] = ";"
                   THEN SubSeq(s, 1, Len(s) - 1) ELSE s
        IN  tool_result.err = "multi" <=> (\E i \in 1..Len(one) : one[i] = ";")

\* C4 (amended): the multi-statement rejection happens exactly when, in the
\* comment-stripped and trimmed text, some ';' is followed by anything that
\* is not a ';': every trailing ';' is trimmed, not only one.
C4_AllTerminatorsTrimmed ==
    gate_pc # "start" =>
        LET s == Strip(_strip_comments(raw_sql))
        IN  tool_result.err = "multi" <=>
                (\E i, j \in 1..Len(s) : i < j /\ s[i] = ";" /\ s[j] # ";")

\* C4 witness: a statement ending in two ';' was accepted and executed.
C4_Witness ==
    /\ gate_pc # "start"
    /\ tool_result.ok
    /\ Len(raw_sql) >= 2
    /\ raw_sql[Len(raw_sql)] = ";"
    /\ raw_sql[Len(raw_sql) - 1] = ";"


-----------------------------------------------------------------------------
(* Properties of a turn *)

\* C5: a request of a session writes its result back to a context that is
\* still the one it read: no other request of the session has changed the
\* candidate list or the Pending Action since.
C5_SessionTurnsSerialized ==
    \A w \in DOMAIN requests :
        requests[w].pc = "update" => requests[w].context_state = context_state

\* A turn has ended and context_state is the context it left.
TurnEnded ==
    /\ console_pc = "input"
    /\ last_turn # NoTurn
    /\ history # <<>>

\* The result tells of no backend call, tool call, query or lookup.
NoBackendWork(result) ==
    /\ result.llm_rounds = 0
    /\ result.tool_calls_total = 0
    /\ result.db_tool_calls = 0
    /\ result.web_tool_calls = 0
    /\ result.fallback_web_calls = 0
    /\ result.tool_messages = 0
    /\ result.sql_queries = <<>>

\* C6: one call of ask calls the backend at most 3 times, and a turn whose 3
\* rounds all returned tool calls, none of them ending the turn with the full
\* list, ends with the fixed message that the steps are exhausted.
C6_RoundCapEndsWithFixedMessage ==
    /\ ask_locals.llm_rounds <= MAX_ROUNDS
    /\ last_turn.result.llm_rounds <= MAX_ROUNDS
    /\ (/\ last_turn.result.llm_rounds = MAX_ROUNDS
        /\ last_turn.result.path \notin {"direct", "full_list"})
       => /\ last_turn.result.raised = ""
          /\ last_turn.result.path = "round_cap"
          /\ last_turn.result.answer = << <<"steps_exhausted">> >>

ShortCircuitPaths == {"capabilities", "contextual", "my_records"}

\* The utterance is one a deterministic handler answers.
IsShortCircuit(text, record_context, records) ==
    \/ _is_capabilities_request(text)
    \/ _handle_contextual_record_intent(text, GUEST, record_context, records).handled
    \/ _handle_my_records_request(text, GUEST, records).handled

\* C7: a turn whose utterance is a capability request, an annotation intent
\* the contextual handler answers, or a request for the user's records never
\* reaches the backend: the turn ends on a short-circuit path with llm_rounds
\* 0, no tool call, no query and no lookup; and only such turns end there.
C7_ShortCircuitSkipsBackend ==
    /\ console_pc \in {"asking", "crashed"}
       => ~IsShortCircuit(console_text, context_state, public_records)
    /\ last_turn # NoTurn
       => /\ IsShortCircuit(last_turn.user_text, last_turn.context_before,
                            last_turn.records_before)
             <=> last_turn.result.path \in ShortCircuitPaths
          /\ last_turn.result.path \in ShortCircuitPaths
             => NoBackendWork(last_turn.result)

\* The backend is available and the contextual handler stored a record
\* without it.
C7_Witness ==
    /\ client
    /\ last_turn.result.path = "contextual"
    /\ last_turn.result.saved # <<>>
    /\ NoBackendWork(last_turn.result)

HasLink(answer) ==
    \E i \in 1..Len(answer) : \E j \in 1..Len(answer[i]) : answer[i][j] \in LinkLexemes

\* C8: the answer a turn returns is what the sanitizer makes of it, on every
\* path by which ask returns, and it holds no link and no domain name.
C8_EveryAnswerSanitized ==
    (last_turn # NoTurn /\ last_turn.result.raised = "")
    => /\ last_turn.result.answer = _sanitize_public_answer(last_turn.result.answer)
       /\ ~HasLink(last_turn.result.answer)

\* The one position the utterance names in a list of max_count items, 0 when
\* it names none, several, or one outside 1..max_count.
OnePosition(text, max_count) ==
    LET one(pos) == IF Len(pos) = 1 /\ pos[1] \in 1..max_count THEN pos[1] ELSE 0
    IN  one(_extract_position_refs(text, max_count))

\* The Pending Action holds several candidates and the utterance names one
\* position among them.
PendingPosition(text, record_context) ==
    /\ record_context.pending_record_action.set
    /\ Len(record_context.pending_record_action.candidates) > 1
    /\ OnePosition(text, Len(record_context.pending_record_action.candidates)) > 0

PendingTarget(text, record_context) ==
    record_context.pending_record_action.candidates[
        OnePosition(text, Len(record_context.pending_record_action.candidates))]

\* The ids the turn resolved: those it saved a record for, or those it keeps
\* in the Pending Action it sets.
ResolvedTargets(result) ==
    IF result.saved # <<>> THEN result.saved
    ELSE [i \in 1..Len(result.set_pending_record_action.selected_list) |->
              result.set_pending_record_action.selected_list[i].wine_id]

\* The record type and the note text the turn works with.
TurnRecordType(text, record_context) ==
    IF _extract_record_intent(text) # "" THEN _extract_record_intent(text)
    ELSE record_context.pending_record_action.record_type

TurnNoteContent(text, record_context) ==
    IF _extract_note_content(text) = <<>> /\ TurnRecordType(text, record_context) = "note"
    THEN record_context.pending_record_action.content
    ELSE _extract_note_content(text)

\* The store after one more record of the guest.
WithRecord(records, record_type, content, wine_id) ==
    Append(records, [id |-> Len(records) + 1, user |-> GUEST,
                     record_type |-> record_type,
                     content |-> IF record_type = "like" THEN <<"1">> ELSE content,
                     wine_id |-> wine_id])

LikePosition(text, record_context) ==
    /\ ~record_context.pending_record_action.set
    /\ _extract_record_intent(text) = "like"
    /\ _is_explicit_record_action(text)
    /\ OnePosition(text, Len(record_context.last_wine_candidates)) > 0

LikeTarget(text, record_context) ==
    record_context.last_wine_candidates[
        OnePosition(text, Len(record_context.last_wine_candidates))]

\* C10 as stated: the like command stores exactly one like record for the id
\* of the candidate at the position, confirms it by the name of that item and
\* works without the backend.
C10_LikeStoresOneRecord ==
    (TurnEnded /\ LikePosition(last_turn.user_text, last_turn.context_before))
    => /\ public_records
              = WithRecord(last_turn.records_before, "like", <<>>,
                           LikeTarget(last_turn.user_text,
                                      last_turn.context_before).wine_id)
       /\ last_turn.result.answer
              = _build_record_saved_answer(
                    "like", LikeTarget(last_turn.user_text, last_turn.context_before),
                    <<>>)
       /\ NoBackendWork(last_turn.result)

\* C10: the like command is answered by the contextual handler without the
\* backend.  When the catalog holds the id of the candidate at the position,
\* exactly one like record is stored for that id and the answer confirms it
\* by the name of the item; when it does not, the store rejects the record,
\* nothing is stored and the answer says that saving failed.
C10_LikeStoresOneCatalogRecord ==
    /\ console_pc \in {"asking", "crashed"}
       => ~LikePosition(console_text, context_state)
    /\ (TurnEnded /\ LikePosition(last_turn.user_text, last_turn.context_before))
       => LET target == LikeTarget(last_turn.user_text, last_turn.context_before)
          IN  /\ last_turn.result.path = "contextual"
              /\ NoBackendWork(last_turn.result)
              /\ IF wine_exists(target.wine_id)
                 THEN /\ public_records
                             = WithRecord(last_turn.records_before, "like", <<>>,
                                          target.wine_id)
                      /\ last_turn.result.answer
                             = _build_record_saved_answer("like", target, <<>>)
                 ELSE /\ public_records = last_turn.records_before
                      /\ last_turn.result.outcome = "save_failed"

\* The like command named the second of three candidates and was stored.
C10_Witness ==
    /\ TurnEnded
    /\ LikePosition(last_turn.user_text, last_turn.context_before)
    /\ Len(last_turn.context_before.last_wine_candidates) = 3
    /\ OnePosition(last_turn.user_text, 3) = 2
    /\ last_turn.result.saved = <<"w2">>

-----------------------------------------------------------------------------
(* Properties of the annotation store *)

\* A call of add_record has been made with a note and no text.
NoteWithoutContent ==
    /\ store_call.n > 0
    /\ _normalize_record_type(store_call.record_type) = "note"
    /\ _normalize_content(store_call.content) = <<>>

\* C11 as stated: add_record with a note and empty, blank or missing content
\* fails with the error that content is required, whatever user and wine_id
\* are, and stores nothing.
C11_NoteWithoutContentNamesContent ==
    NoteWithoutContent
    => /\ ~store_call.ok
       /\ store_call.error = "content_required"
       /\ public_records = store_call.records_before

\* C11: add_record with a note and empty, blank or missing content fails and
\* stores nothing, whatever user and wine_id are.  The error is the one that
\* content is required when the wine_id is one of the catalog; an empty
\* wine_id and a wine_id the catalog does not hold are reported first.
C11_NoteWithoutContentFails ==
    NoteWithoutContent
    => /\ ~store_call.ok
       /\ public_records = store_call.records_before
       /\ store_call.error =
              IF StripText(store_call.wine_id) = "" THEN "wine_id_required"
              ELSE IF ~wine_exists(StripText(store_call.wine_id))
                   THEN "wine_id_not_found"
              ELSE "content_required"

\* A note of blank text for a wine of the catalog was refused after a record
\* had been stored.
C11_Witness ==
    /\ NoteWithoutContent
    /\ store_call.content = <<" ">>
    /\ store_call.wine_id = "u2"
    /\ store_call.error = "content_required"
    /\ store_call.records_before # <<>>

C13_StoreAppendOnly ==
    [][/\ Len(public_records) <= Len(public_records')
       /\ SubSeq(public_records', 1, Len(public_records)) = public_records
       /\ store_call' # store_call
          => Len(public_records')
                 = Len(public_records) + (IF store_call'.ok THEN 1 ELSE 0)]_vars

\* A call failed on a store that held a record, and the record is still there.
C13_Witness ==
    /\ store_call.n = 2
    /\ ~store_call.ok
    /\ Len(public_records) = 1
    /\ public_records = store_call.records_before

-----------------------------------------------------------------------------
(* Properties of the candidates *)

\* C14 (as stated): the batch extraction never returns two references with
\* the same id; of the rows that normalize to one id only the first is kept.
C14_ExtractedIdsDistinct ==
    candidate_call.pc \in {"extracted", "done"} =>
        \A i, j \in 1..Len(candidate_call.candidates) :
            i # j => candidate_call.candidates[i].wine_id
                         # candidate_call.candidates[j].wine_id

\* The candidate list a turn leaves: the first 30 references of its last
\* successful query step that yielded a normalizable row, the list of before
\* when it has no such step.
CandidateListAfter(before, result) ==
    IF result.wine_context_candidates # <<>>
    THEN SubSeq(result.wine_context_candidates, 1,
                Min(Len(result.wine_context_candidates), MAX_CANDIDATES))
    ELSE before.last_wine_candidates

\* C15 (as stated): after a turn the candidate list of the session has at
\* most 30 items; it is the references of the last successful query step of
\* the turn that yielded a normalizable row, and the list of before the turn
\* when the turn has no such step.  Stated for the first turn of a session,
\* when it has ended and no other turn has begun.
C15_CandidateListFollowsQueries ==
    /\ Len(context_state.last_wine_candidates) <= MAX_CANDIDATES
    /\ (last_turn # NoTurn /\ turns = 1 /\ console_pc \in {"off", "input"})
       => context_state.last_wine_candidates
              = CandidateListAfter(last_turn.context_before, last_turn.result)

\* The utterance is an annotation request: it names a record type with an
\* explicit action, or it answers a Pending Action.
IsAnnotationRequest(text, record_context) ==
    \/ _extract_record_intent(text) # "" /\ _is_explicit_record_action(text)
    \/ record_context.pending_record_action.set

\* The candidate list a position of the utterance refers to.
ListInUse(record_context) ==
    IF /\ record_context.pending_record_action.set
       /\ record_context.pending_record_action.candidates # <<>>
    THEN record_context.pending_record_action.candidates
    ELSE record_context.last_wine_candidates

\* C17 (as stated): an annotation request with a position greater than the
\* size of the candidate list in use ends the turn with a direct message of
\* the annotation handler, without a call of the backend and without a new
\* record, and leaves the Pending Action as it was, with and without a
\* Pending Action.  The position of the utterances is 5.
C17_OutOfRangeEndsWithMessage ==
    (/\ last_turn # NoTurn
     /\ \E i \in 1..Len(last_turn.user_text) : last_turn.user_text[i] = "5"
     /\ ListInUse(last_turn.context_before) # <<>>
     /\ Len(ListInUse(last_turn.context_before)) < 5
     /\ IsAnnotationRequest(last_turn.user_text, last_turn.context_before))
    => /\ last_turn.result.raised = ""
       /\ last_turn.result.path = "contextual"
       /\ last_turn.result.answer # <<>>
       /\ NoBackendWork(last_turn.result)
       /\ last_turn.result.records = last_turn.records_before
       /\ _update_context_state_from_meta(last_turn.context_before,
                                          last_turn.result).pending_record_action
              = last_turn.context_before.pending_record_action

\* C16: normalizing a reference that _normalize_candidate returned gives a
\* reference with the same id.
C16_NormalizeIdempotentOnId ==
    candidate_call.pc = "done" =>
        \A i \in 1..Len(candidate_call.candidates) :
            /\ candidate_call.normalized[i] # NoCandidate
            /\ candidate_call.normalized[i].wine_id = candidate_call.candidates[i].wine_id

\* A reference whose id the catalog look-up replaced (a url by the card_key
\* of its row) has been normalized again.
C16_Witness ==
    /\ candidate_call.pc = "done"
    /\ \E i \in 1..Len(candidate_call.rows) :
           /\ candidate_call.rows[i].url = "u1"
           /\ candidate_call.rows[i].wine_id = ""
    /\ \E i \in 1..Len(candidate_call.candidates) :
           /\ candidate_call.candidates[i].url = "u1"
           /\ candidate_call.candidates[i].wine_id = "w1"
           /\ candidate_call.normalized[i].wine_id = "w1"

-----------------------------------------------------------------------------
(* Properties of failures *)

\* The exceptions the reading of tool arguments raises: args.get on a JSON
\* value that is not an object, int() of a max_results that is no integer.
ArgumentErrors == {"AttributeError", "ValueError"}

\* C18 (as stated): a tool call whose arguments are rejected (not valid
\* JSON, JSON that is not an object, an empty query, a max_results that is no
\* integer, a query the safety gate rejects) never raises out of ask.
C18_ValidationRejectionNeverRaises ==
    /\ ask_locals.raised \notin ArgumentErrors
    /\ last_turn.result.raised \notin ArgumentErrors

\* The exceptions of the collaborators: sqlite3.Error raised by storage and
\* by the annotation store.
CollaboratorErrors == {"StorageError", "StoreError"}

\* C19 (as stated): a failure of a collaborator during a turn never leaves
\* ask as an exception, on the annotation and my-records paths as in the
\* loop.
C19_CollaboratorFailureNeverEscapes ==
    /\ last_turn.result.raised \notin CollaboratorErrors
    /\ ask_locals.raised \notin CollaboratorErrors

\* The turn failed: ask raised, or its result carries no Pending Action to
\* set, no request to clear it and no candidates.
TurnFails(result) ==
    \/ result.raised # ""
    \/ /\ ~result.set_pending_record_action.set
       /\ ~result.clear_pending_record_action
       /\ result.wine_context_candidates = <<>>

\* C20: the step that ends a failed turn leaves the candidate list and the
\* Pending Action of the session as they were before the turn.
C20_FailedTurnKeepsContext ==
    [][(/\ console_pc' \in {"input", "crashed"}
        /\ console_pc = "asking" \/ turns' # turns
        /\ TurnFails(last_turn'.result))
       => /\ context_state' = context_state
          /\ context_state' = last_turn'.context_before]_vars

\* A turn with a list of candidates and a Pending Action ended with a
\* message of the annotation handler that carries nothing.
C20_Witness ==
    /\ console_pc = "input"
    /\ last_turn # NoTurn
    /\ last_turn.result.path = "contextual"
    /\ TurnFails(last_turn.result)
    /\ last_turn.context_before.last_wine_candidates # <<>>
    /\ context_state = last_turn.context_before

-----------------------------------------------------------------------------
(* Properties of the Pending Action *)

\* The Pending Action the session holds after a turn with that result.
PendingAfter(record_context, result) ==
    _update_context_state_from_meta(record_context, result).pending_record_action

\* The utterance carries disambiguating information: a reference to a wine,
\* a position of the list in use, or the text of a note.
CarriesInformation(text, record_context) ==
    \/ _extract_wine_reference(text) # <<>>
    \/ _extract_position_refs(text, Len(ListInUse(record_context))) # <<>>
    \/ _is_all_positions_phrase(_normalize_text(text))
    \/ _extract_note_content(text) # <<>>

NamesWine(text, record_context) ==
    /\ IsAnnotationRequest(text, record_context)
    /\ ~_is_capabilities_request(text)
    /\ _extract_wine_reference(text) # <<>>
    /\ _extract_position_refs(text, Len(ListInUse(record_context))) = <<>>
    /\ ~_has_list_reference_phrase(_normalize_text(text))
    /\ ~_is_all_positions_phrase(_normalize_text(text))

\* The record type and the note content of the request: those of the
\* utterance, else those the Pending Action holds.
RequestType(text, record_context) ==
    IF _extract_record_intent(text) # "" THEN _extract_record_intent(text)
    ELSE record_context.pending_record_action.record_type

RequestContent(text, record_context) ==
    IF /\ _extract_note_content(text) = <<>>
       /\ record_context.pending_record_action.set
       /\ RequestType(text, record_context) = "note"
    THEN record_context.pending_record_action.content
    ELSE _extract_note_content(text)

\* What the look-up of the named wine decides, for the matches it returns.
LookupDecides(turn, matches) ==
    /\ Len(matches) = 0
       => /\ turn.result.outcome = "not_found"
          /\ turn.result.answer # <<>>
          /\ turn.result.records = turn.records_before
          /\ PendingAfter(turn.context_before, turn.result)
                 = turn.context_before.pending_record_action
    /\ Len(matches) = 1
       => \/ /\ turn.result.outcome = "saved"
             /\ turn.result.saved = <<matches[1].wine_id>>
          \/ /\ turn.result.outcome = "ask_content"
             /\ turn.result.set_pending_record_action.selected_list = matches
             /\ turn.result.records = turn.records_before
    /\ Len(matches) > 1
       => /\ turn.result.outcome = "ask_target"
          /\ turn.result.records = turn.records_before
          /\ turn.result.set_pending_record_action
                 = [set |-> TRUE,
                    record_type |-> RequestType(turn.user_text, turn.context_before),
                    content |-> RequestContent(turn.user_text, turn.context_before),
                    reference |-> _extract_wine_reference(turn.user_text),
                    candidates |-> matches,
                    selected |-> NoCandidate, selected_list |-> <<>>]
          /\ \A i \in 1..Len(matches) :
                 turn.result.answer[i + 1] = <<_format_wine_label(matches[i])>>

\* C22: when an annotation request names a wine by free text, no match ends
\* the turn with a message and no record, one match is the target, and
\* several matches store nothing and set a Pending Action that awaits the
\* target, with the record type, the reference, the note content so far and
\* the matches, which the prompt numbers.
C22_LookupDecidesNextState ==
    (/\ last_turn # NoTurn
     /\ last_turn.result.raised = ""
     /\ NamesWine(last_turn.user_text, last_turn.context_before))
    => /\ last_turn.result.path = "contextual"
       /\ NoBackendWork(last_turn.result)
       /\ LookupDecides(last_turn,
                        _search_wine_candidates(
                            _extract_wine_reference(last_turn.user_text), SEARCH_LIMIT))

\* A note with its text named a wine of which the catalog has two: the
\* session awaits the target and keeps the text.
C22_Witness ==
    /\ console_pc = "input"
    /\ last_turn # NoTurn
    /\ NamesWine(last_turn.user_text, last_turn.context_before)
    /\ last_turn.result.outcome = "ask_target"
    /\ Len(context_state.pending_record_action.candidates) = 2
    /\ context_state.pending_record_action.record_type = "note"
    /\ context_state.pending_record_action.content # <<>>
    /\ context_state.pending_record_action.reference = <<"merlot">>

\* The ids of a list of candidates.
Ids(candidates) == [i \in 1..Len(candidates) |-> candidates[i].wine_id]

\* The session awaits the text of a note for the targets it holds.
AwaitsContent(record_context) ==
    /\ record_context.pending_record_action.set
    /\ record_context.pending_record_action.record_type = "note"
    /\ record_context.pending_record_action.selected_list # <<>>

\* C23 (as stated): a note request that ends by asking for the text stores
\* nothing and leaves a Pending Action with the targets selected; a later
\* utterance that gives the text of the note (and names no wine and no
\* like) stores the note for the targets of the Pending Action, and for no
\* other wine, with that text, and clears the Pending Action.
C23_ContentCompletesPendingNote ==
    /\ (last_turn # NoTurn /\ last_turn.result.outcome = "ask_content")
       => /\ last_turn.result.records = last_turn.records_before
          /\ AwaitsContent(_update_context_state_from_meta(last_turn.context_before,
                                                           last_turn.result))
    /\ (/\ last_turn # NoTurn
        /\ AwaitsContent(last_turn.context_before)
        /\ _extract_note_content(last_turn.user_text) # <<>>
        /\ _extract_wine_reference(last_turn.user_text) = <<>>
        /\ _extract_record_intent(last_turn.user_text) \in {"", "note"})
       => /\ last_turn.result.outcome = "saved"
          /\ last_turn.result.saved
                 = Ids(last_turn.context_before.pending_record_action.selected_list)
          /\ Len(last_turn.result.records)
                 = Len(last_turn.records_before) + Len(last_turn.result.saved)
          /\ \A i \in (Len(last_turn.records_before) + 1)..Len(last_turn.result.records) :
                 /\ last_turn.result.records[i].record_type = "note"
                 /\ last_turn.result.records[i].content
                        = _extract_note_content(last_turn.user_text)
          /\ ~PendingAfter(last_turn.context_before, last_turn.result).set

-----------------------------------------------------------------------------
(* Properties of a batch of targets *)

\* The positions the utterance selects in the list in use.
SelectedPositions(text, record_context) ==
    IF /\ _extract_position_refs(text, Len(ListInUse(record_context))) = <<>>
       /\ _is_all_positions_phrase(_normalize_text(text))
    THEN [i \in 1..Len(ListInUse(record_context)) |-> i]
    ELSE _extract_position_refs(text, Len(ListInUse(record_context)))

\* The ids of the wines at these positions that the store accepts: those
\* the catalog holds.
AcceptedIds(text, record_context) ==
    { ListInUse(record_context)[p].wine_id :
        p \in { q \in Range(SelectedPositions(text, record_context)) :
                    wine_exists(ListInUse(record_context)[q].wine_id) } }

\* The turn selected positions of the list and went on to store records.
BatchTurn(turn) ==
    /\ turn # NoTurn
    /\ turn.result.outcome \in {"saved", "save_failed"}
    /\ SelectedPositions(turn.user_text, turn.context_before) # <<>>

\* The ids of the records the turn added to the store.
StoredIds(turn) ==
    [i \in 1..(Len(turn.result.records) - Len(turn.records_before)) |->
        turn.result.records[Len(turn.records_before) + i].wine_id]

\* C24: a turn that resolves several targets stores one record for each
\* distinct id among the selected positions whose add succeeds; an id that
\* is selected twice is stored once.
C24_OneRecordForEachDistinctTarget ==
    BatchTurn(last_turn)
    => /\ Len(StoredIds(last_turn))
              = Cardinality(AcceptedIds(last_turn.user_text, last_turn.context_before))
       /\ Range(StoredIds(last_turn))
              = AcceptedIds(last_turn.user_text, last_turn.context_before)
       /\ last_turn.result.saved = StoredIds(last_turn)

\* All three positions of a list that holds one wine twice were selected:
\* two records are stored.
C24_Witness ==
    /\ BatchTurn(last_turn)
    /\ Len(SelectedPositions(last_turn.user_text, last_turn.context_before)) = 3
    /\ Ids(ListInUse(last_turn.context_before)) = <<"w1", "w2", "w1">>
    /\ StoredIds(last_turn) = <<"w1", "w2">>

\* The ids among the selected positions that the store rejects.
RejectedIds(text, record_context) ==
    { ListInUse(record_context)[p].wine_id :
        p \in { q \in Range(SelectedPositions(text, record_context)) :
                    ~wine_exists(ListInUse(record_context)[q].wine_id) } }

\* The answer lists the targets that were not saved.
ListsFailures(answer) ==
    \E i \in 1..Len(answer) : answer[i] # <<>> /\ answer[i][1] = "partly_failed"

\* C25 (as stated): in a batch of several targets a rejection by the store
\* does not stop the batch; when a record is saved the turn reports success,
\* lists the failures and asks to clear the Pending Action; when none is
\* saved it reports the failure and does not ask to clear it.
C25_RejectionDoesNotStopBatch ==
    (/\ BatchTurn(last_turn)
     /\ Len(SelectedPositions(last_turn.user_text, last_turn.context_before)) > 1)
    => /\ Range(StoredIds(last_turn))
              = AcceptedIds(last_turn.user_text, last_turn.context_before)
       /\ StoredIds(last_turn) # <<>>
          => /\ last_turn.result.outcome = "saved"
             /\ last_turn.result.clear_pending_record_action
             /\ RejectedIds(last_turn.user_text, last_turn.context_before) # {}
                => ListsFailures(last_turn.result.answer)
       /\ StoredIds(last_turn) = <<>>
          => /\ last_turn.result.outcome = "save_failed"
             /\ ~last_turn.result.clear_pending_record_action

-----------------------------------------------------------------------------
(* Properties of the fallback lookup and of the full listing.               *)

\* The step ends a turn of ask that went through the rounds of the loop.
EndsTurn ==
    /\ console_pc = "asking"
    /\ last_turn' # last_turn
    /\ last_turn'.result.raised = ""

\* C26 (as stated): the fallback lookup is issued at most once in a turn,
\* only when no lookup tool call occurred earlier in the turn, and only for
\* a question of price or availability or for what looks like a question
\* about a named item after a query that returned no rows.
C26_FallbackOnlyWithoutLookupCall ==
    [][EndsTurn
       => /\ last_turn'.result.fallback_web_calls <= 1
          /\ last_turn'.result.fallback_web_calls = 1
             => /\ last_turn'.result.web_tool_calls = 0
                /\ \/ _is_price_or_availability_request(console_text)
                   \/ /\ ask_locals.last_rows = 0
                      /\ _looks_like_wine_name_or_topic(console_text)]_vars

\* C26 (amended): the fallback lookup is issued at most once in a turn, and
\* exactly when the model answers directly, no lookup result has been
\* collected earlier in the turn (a lookup tool call that failed or found
\* nothing does not prevent it) and the utterance is a question of price or
\* availability, or the row count of the turn is zero and the utterance
\* looks like a question about a named item.
C26_FallbackOnlyWithoutLookupResults ==
    [][EndsTurn
       => /\ last_turn'.result.fallback_web_calls <= 1
          /\ last_turn'.result.fallback_web_calls = 1
             <=> /\ last_turn'.result.path = "direct"
                 /\ ask_locals.web_results = 0
                 /\ \/ _is_price_or_availability_request(console_text)
                    \/ /\ ask_locals.last_rows = 0
                       /\ _looks_like_wine_name_or_topic(console_text)]_vars

\* A direct answer to a question of price came after a lookup tool call that
\* collected no result, and the fallback lookup was issued.
C26_Witness ==
    /\ last_turn # NoTurn
    /\ last_turn.result.path = "direct"
    /\ _is_price_or_availability_request(last_turn.user_text)
    /\ last_turn.result.web_tool_calls = 1
    /\ last_turn.result.fallback_web_calls = 1

\* The positions of the execute_sql tool calls of a response that succeed.
SuccessfulQueries(response) ==
    { k \in 1..Len(response.tool_calls) :
        /\ response.tool_calls[k].name = "execute_sql"
        /\ _tool_response([json |-> response.tool_calls[k].json,
                           query |-> response.tool_calls[k].query],
                          MAX_SQL_ROWS, <<>>, response.tool_calls[k].db_ok).ok }

\* The result is the one of a turn that ended at tool call k of the response:
\* k tool calls of the round were dispatched and the answer is the full
\* enumeration of the rows of that call.
EndedAtCall(result, st, response, k) ==
    /\ result.llm_rounds = st.llm_rounds + 1
    /\ result.tool_calls_total = st.tool_calls_total + k
    /\ result.records = st.records
    /\ result.answer = _sanitize_public_answer(
                            _format_full_list_answer(response.tool_calls[k].rows))
    /\ response.tool_calls[k].rows # <<>>
       => Len(result.answer) = 1 + Len(response.tool_calls[k].rows)

\* C27: when the utterance asks for the full list the turn ends right after
\* the first execute_sql tool call that succeeds: the turn holds one query,
\* no later tool call of the round is dispatched, no round follows, and the
\* answer enumerates every row of that call.
C27_FullListEndsAtFirstQuery ==
    [][(/\ console_pc = "asking"
        /\ last_turn' # last_turn
        /\ _is_full_list_request(console_text))
       => /\ ask_locals.sql_queries = <<>>
          /\ Len(last_turn'.result.sql_queries) <= 1
          /\ last_turn'.result.sql_queries # <<>>
             <=> last_turn'.result.path = "full_list"
          /\ last_turn'.result.path = "full_list"
             => /\ console_pc' = "input"
                /\ \E response \in Responses :
                      \E k \in SuccessfulQueries(response) :
                          /\ \A j \in SuccessfulQueries(response) : k <= j
                          /\ EndedAtCall(last_turn'.result, ask_locals, response, k)]_vars

\* The full list was asked for and the query was the second of three tool
\* calls of the round, after a rejected query and before a request to store
\* a record: the answer lists the three rows and no record is stored.
C27_Witness ==
    /\ last_turn # NoTurn
    /\ _is_full_list_request(last_turn.user_text)
    /\ last_turn.result.path = "full_list"
    /\ last_turn.result.tool_calls_total = 2
    /\ last_turn.result.db_tool_calls = 2
    /\ Len(last_turn.result.answer) = 4
    /\ last_turn.result.records = <<>>

-----------------------------------------------------------------------------
(* Properties of _extract_position_refs.                                    *)

\* The call of the position scenario has returned.
Extracted == position_call.pc = "done"

\* The utterance of the call, normalized.
CallText == _normalize_text(position_call.text)

\* C28: for an utterance that is a phrase meaning all positions the result
\* is 1..list_size when the size is known and empty when it is not, whatever
\* digits, ranges or ordinal words the utterance also holds.
C28_AllPhraseWins ==
    (Extracted /\ _is_all_positions_phrase(CallText))
    => position_call.refs =
           IF position_call.max_count > 0
           THEN [i \in 1..position_call.max_count |-> i]
           ELSE <<>>

\* "vse pozicii 4 - 2" on a list of five: all five positions in ascending
\* order, not the range 4, 3, 2.
C28_Witness ==
    /\ Extracted
    /\ position_call.text = <<"vse", "pozicii", "4", "-", "2">>
    /\ position_call.max_count = 5
    /\ position_call.refs = <<1, 2, 3, 4, 5>>

\* The number a word or a run of digits names, 0 when it names none.
NumberNamed(t) ==
    CASE t \in DigitTokens -> DigitValue(t)
      [] t \in {"dva", "dve"} -> 2
      [] t = "tri" -> 3
      [] t = "tridcat" -> 30
      [] OTHER -> 0

\* The number named right after the first of the words that another word
\* follows, 0 when there is no such place or no number is named there.
RECURSIVE NumberAfter(_, _, _)
NumberAfter(q, i, words) ==
    IF i + 1 > Len(q) THEN 0
    ELSE IF q[i] \in words /\ q[i + 1] \notin {":", ",", ";", ".."}
         THEN NumberNamed(q[i + 1])
         ELSE NumberAfter(q, i + 1, words)

\* C29 (as stated): with a known list size L, "first N" gives 1..min(N, L)
\* and "last N" gives the last min(N, L) positions in ascending order, for N
\* written in digits or as a number word.
C29_FirstAndLastN ==
    (/\ Extracted
     /\ position_call.max_count > 0
     /\ ~_is_all_positions_phrase(CallText))
    => /\ NumberAfter(CallText, 1, {"pervye"}) > 0
          => position_call.refs =
                 [i \in 1..Min(NumberAfter(CallText, 1, {"pervye"}),
                               position_call.max_count) |-> i]
       /\ (/\ NumberAfter(CallText, 1, {"pervye"}) = 0
           /\ NumberAfter(CallText, 1, {"poslednie"}) > 0)
          => position_call.refs =
                 [i \in 1..Min(NumberAfter(CallText, 1, {"poslednie"}),
                               position_call.max_count) |->
                     position_call.max_count
                         - Min(NumberAfter(CallText, 1, {"poslednie"}),
                               position_call.max_count) + i]

RangeSeparators == {"po", "do", "-", ".."}

\* The places of the utterance where a range "A <separator> B" is written.
RangePlaces(q) ==
    { i \in 1..(Len(q) - 2) :
        /\ q[i] \in DigitTokens /\ DigitValue(q[i]) >= 1
        /\ q[i + 1] \in RangeSeparators
        /\ q[i + 2] \in DigitTokens /\ DigitValue(q[i + 2]) >= 1 }

\* The utterance is a reference by one range from A to B: it holds one
\* range, no other number and no ordinal word, and none of the rules that
\* come before the ranges applies to it.
IsRangeReference(q, max_count) ==
    /\ Cardinality(RangePlaces(q)) = 1
    /\ Len(DigitsOf(q)) = 2
    /\ OrdinalsOf(q) = <<>>
    /\ ~_is_all_positions_phrase(q)
    /\ max_count > 0
       => /\ CountAfter(q, 1, {"pervye"}) = 0
          /\ CountAfter(q, 1, {"poslednie"}) = 0

\* Every integer from A to B, ascending or descending, without the values
\* outside the list when its size is known.
RangeOf(q, i, max_count) ==
    LET within(values) ==
            SelectSeq(values, LAMBDA n : max_count > 0 => (1 <= n /\ n <= max_count))
        from_to(a, b) ==
            IF a <= b THEN within([k \in 1..(b - a + 1) |-> a + k - 1])
            ELSE within([k \in 1..(a - b + 1) |-> a - k + 1])
    IN  from_to(DigitValue(q[i]), DigitValue(q[i + 2]))

RangesAreRead(q, max_count) ==
    max_count > 0 \/ _has_list_reference_phrase(q) \/ CompactRange(q)

MatchesNoRule(q) ==
    /\ DigitsOf(q) = <<>>
    /\ OrdinalsOf(q) = <<>>
    /\ ~_is_all_positions_phrase(q)
    /\ NumberAfter(q, 1, {"pervye"}) = 0
    /\ NumberAfter(q, 1, {"poslednie"}) = 0

\* C31 (as stated): _extract_position_refs never raises; for every utterance
\* and every list size, known or not, it returns a list, and the empty list
\* for an utterance that matches no rule.
C31_ResolutionNeverRaises ==
    /\ position_call.pc # "raised"
    /\ (Extracted /\ MatchesNoRule(CallText)) => position_call.refs = <<>>

-----------------------------------------------------------------------------
(* Properties of the session stores.                                        *)

\* C32: after any sequence of appended messages the stored history of a
\* session has at most 24 entries and holds the most recent messages in the
\* order they were appended.
C32_HistoryIsMostRecent ==
    stores.pc = "history"
    => \A sid \in Sessions :
           /\ Len(stores.CHAT_STORE[sid]) <= 24
           /\ Len(stores.CHAT_STORE[sid]) = Min(24, stores.appended[sid])
           /\ \A i \in 1..Len(stores.CHAT_STORE[sid]) :
                  stores.CHAT_STORE[sid][i].content =
                      stores.appended[sid] - Len(stores.CHAT_STORE[sid]) + i

\* Twenty-six messages were appended to a session: the first two are gone.
C32_Witness ==
    /\ stores.pc = "history"
    /\ stores.appended["sid1"] = 26
    /\ Len(stores.CHAT_STORE["sid1"]) = 24
    /\ stores.CHAT_STORE["sid1"][1].content = 3
    /\ stores.CHAT_STORE["sid1"][24].content = 26

\* The worker that takes the step, when the step is one of a request.
Stepping(w) == stores'.requests[w] # stores.requests[w]

\* The session the stepping worker serves.
ServedSession(w) ==
    IF stores.requests[w].sid # "" THEN stores.requests[w].sid
    ELSE stores'.requests[w].sid

\* C33: a turn processed for one session never changes the history, the
\* candidate list or the Pending Action of another session.
C33_OtherSessionsUntouched ==
    [][stores.pc = "sessions"
       => \A w \in Workers :
              Stepping(w)
              => \A other \in Sessions \ {ServedSession(w)} :
                     /\ stores'.CHAT_STORE[other] = stores.CHAT_STORE[other]
                     /\ stores'.CONTEXT_STORE[other] = stores.CONTEXT_STORE[other]]_vars

\* One session holds a Pending Action and no candidate list while the
\* other holds a candidate list and no Pending Action; both turns are over.
C33_Witness ==
    /\ stores.pc = "sessions"
    /\ \A w \in Workers : stores.requests[w].pc = "idle"
    /\ stores.CONTEXT_STORE["sid1"].pending_record_action.set
    /\ stores.CONTEXT_STORE["sid1"].last_wine_candidates = <<>>
    /\ ~stores.CONTEXT_STORE["sid2"].pending_record_action.set
    /\ stores.CONTEXT_STORE["sid2"].last_wine_candidates # <<>>
    /\ Len(stores.CHAT_STORE["sid1"]) = 2
    /\ Len(stores.CHAT_STORE["sid2"]) = 2

-----------------------------------------------------------------------------
(* Properties of the intent of a Pending Action.                            *)

\* The records the turn added to the store.
StoredRecords(turn) ==
    SubSeq(turn.result.records, Len(turn.records_before) + 1, Len(turn.result.records))

\* C34 (as stated): every record stored by a turn that resolves a Pending
\* Action has the record type the Pending Action carried, whatever the
\* wording of the utterance.
C34_PendingTypeIsKept ==
    (/\ last_turn # NoTurn
     /\ last_turn.context_before.pending_record_action.set
     /\ last_turn.result.path = "contextual")
    => \A i \in 1..Len(StoredRecords(last_turn)) :
           StoredRecords(last_turn)[i].record_type =
               last_turn.context_before.pending_record_action.record_type

\* The turn began while the session had a Pending Action.
TurnWithPending(turn) ==
    /\ turn # NoTurn
    /\ turn.context_before.pending_record_action.set

\* The evaluation of the Pending Action declines the utterance of the turn.
EvaluationDeclines(turn) ==
    ~_handle_contextual_record_intent(turn.user_text, GUEST, turn.context_before,
                                      turn.records_before).handled

\* C35 (as stated): while the session has a Pending Action every utterance,
\* a capability request and a request for the user's records included, is
\* evaluated against the Pending Action before any other handling: another
\* path answers only an utterance the evaluation declined.
C35_PendingEvaluatedFirst ==
    (TurnWithPending(last_turn) /\ last_turn.result.path # "contextual")
    => /\ last_turn.result.path # "capabilities"
       /\ EvaluationDeclines(last_turn)

\* C35 (amended): while the session has a Pending Action a capability
\* request is answered with the capabilities text without the Pending
\* Action being evaluated, and leaves it as it was; every other utterance,
\* a request for the user's records included, is evaluated against the
\* Pending Action before any other handling.
C35_PendingEvaluatedAfterCapabilities ==
    TurnWithPending(last_turn)
    => /\ last_turn.result.path = "capabilities"
          <=> _is_capabilities_request(last_turn.user_text)
       /\ last_turn.result.path = "capabilities"
          => PendingAfter(last_turn.context_before, last_turn.result)
                 = last_turn.context_before.pending_record_action
       /\ last_turn.result.path \notin {"capabilities", "contextual"}
          => EvaluationDeclines(last_turn)

\* The session had a Pending Action and the user asked for their likes: the
\* evaluation of the Pending Action answered, not the list of records.
C35_Witness ==
    /\ TurnWithPending(last_turn)
    /\ last_turn.user_text = <<"pokazhi", "moi", "layki">>
    /\ last_turn.result.path = "contextual"

\* The turn began without a Pending Action and its utterance does not carry
\* both an annotation verb and an annotation noun.
TurnWithoutExplicitAction(turn) ==
    /\ turn # NoTurn
    /\ ~turn.context_before.pending_record_action.set
    /\ ~_is_explicit_record_action(turn.user_text)

\* C36: with no Pending Action an utterance that does not carry both an
\* explicit annotation verb and an annotation noun never enters the
\* annotation state machine: the contextual handler returns no result, the
\* turn is answered by another path, and the handler stores no record and
\* sets no Pending Action, whatever like-word or position the utterance
\* holds.
C36_NoEntryWithoutExplicitAction ==
    TurnWithoutExplicitAction(last_turn)
    => /\ last_turn.result.path # "contextual"
       /\ ~last_turn.result.set_pending_record_action.set
       /\ ~PendingAfter(last_turn.context_before, last_turn.result).set
       /\ _handle_contextual_record_intent(last_turn.user_text, GUEST,
                                           last_turn.context_before,
                                           last_turn.records_before)
              = HandlerNone(last_turn.records_before)
       /\ last_turn.result.path \in {"capabilities", "my_records", "no_client"}
              => last_turn.result.records = last_turn.records_before

\* A list of wines is on the screen, nothing is pending, and the user says
\* "like 2" without a verb: the turn goes to the tool loop.
C36_Witness ==
    /\ TurnWithoutExplicitAction(last_turn)
    /\ last_turn.user_text = <<"layk", "2">>
    /\ Len(last_turn.context_before.last_wine_candidates) >= 2
    /\ last_turn.result.path \notin {"none", "capabilities", "contextual", "my_records"}

-----------------------------------------------------------------------------
(* Properties of the conversation of the tool loop.                         *)

\* A round of the turn returned tool calls and the turn goes on to the next
\* backend call.
RoundGoesOn ==
    /\ console_pc = "asking"
    /\ console_pc' = "asking"
    /\ ask_locals'.llm_rounds = ask_locals.llm_rounds + 1

KnownTools ==
    {"execute_sql", "search_web", "add_public_record", "list_public_records",
     "get_wine_public_summary"}

\* The number of calls of the tool among the calls requested.
CallsOf(requested, name) ==
    Cardinality({k \in 1..Len(requested) : requested[k].name = name})

\* The messages are those before the round, the message of the backend with
\* the calls it requested, and one tool message for each call, in the order
\* of the calls; a call of an unknown tool is answered ok = false.
RoundAppended(before, after, requested) ==
    /\ requested # <<>>
    /\ Len(after) = Len(before) + 1 + Len(requested)
    /\ SubSeq(after, 1, Len(before)) = before
    /\ \A k \in 1..Len(requested) :
          /\ after[Len(before) + 1 + k].role = "tool"
          /\ after[Len(before) + 1 + k].tool_call_id = requested[k].id
          /\ requested[k].name \notin KnownTools
             => ~after[Len(before) + 1 + k].ok

\* C37: in every round that does not end the turn one tool message carrying
\* the id of the call and its result is appended for each tool call the
\* backend requested, in the order of the calls, before the next backend
\* call; a call of an unknown tool is answered with an error result and
\* reaches no subsystem: storage, the lookup and the annotation store are
\* called only for the calls that name them.
C37_OneToolMessagePerCall ==
    [][RoundGoesOn
       => /\ Len(ask_locals'.messages) > Len(ask_locals.messages)
          /\ ask_locals'.messages[Len(ask_locals.messages) + 1].role = "assistant"
          /\ RoundAppended(ask_locals.messages, ask_locals'.messages,
                           ask_locals'.messages[Len(ask_locals.messages) + 1].tool_calls)
          /\ ask_locals'.db_tool_calls - ask_locals.db_tool_calls
             = CallsOf(ask_locals'.messages[Len(ask_locals.messages) + 1].tool_calls,
                       "execute_sql")
          /\ ask_locals'.web_tool_calls - ask_locals.web_tool_calls
             = CallsOf(ask_locals'.messages[Len(ask_locals.messages) + 1].tool_calls,
                       "search_web")
          /\ Len(ask_locals'.records) - Len(ask_locals.records)
             <= CallsOf(ask_locals'.messages[Len(ask_locals.messages) + 1].tool_calls,
                        "add_public_record")]_vars

\* Two rounds went on; the second one called an unknown tool, which was
\* answered with an error result.
C37_Witness ==
    /\ console_pc = "asking"
    /\ ask_locals.llm_rounds = 2
    /\ Len(ask_locals.messages) >= 4
    /\ \E i \in 1..Len(ask_locals.messages) - 1 :
          /\ ask_locals.messages[i].role = "assistant"
          /\ Len(ask_locals.messages[i].tool_calls) = 1
          /\ ask_locals.messages[i].tool_calls[1].name = "no_such_tool"
          /\ ask_locals.messages[i + 1]
                 = [role |-> "tool", tool_call_id |-> 1, ok |-> FALSE,
                    tool_calls |-> <<>>]

-----------------------------------------------------------------------------
(* Properties of the positions handed to the handler.                       *)

\* The positions the handler goes on with (assistant.py lines 1061-1062) and
\* those of them its range check finds bad (line 1073), for a list of n
\* candidates.
HandlerPosList(text, refs, n) ==
    IF refs = <<>> /\ _is_all_positions_phrase(_normalize_text(text))
    THEN [i \in 1..n |-> i] ELSE refs

BadPositions(pos_list, n) ==
    SelectSeq(pos_list, LAMBDA p : p < 1 \/ p > n)

\* C38: whenever list_size is known (>= 1) the list _extract_position_refs
\* returns holds only positions between 1 and list_size and holds none
\* twice, on every rule; so for a non-empty list of candidates the range
\* check of the handler finds no bad position.
C38_RefsWithinListOnce ==
    (Extracted /\ position_call.max_count >= 1)
    => /\ \A i \in 1..Len(position_call.refs) :
              /\ position_call.refs[i] \in 1..position_call.max_count
              /\ \A j \in 1..Len(position_call.refs) :
                     position_call.refs[i] = position_call.refs[j] => i = j
       /\ BadPositions(HandlerPosList(position_call.text, position_call.refs,
                                      position_call.max_count),
                       position_call.max_count) = <<>>

\* A list of three and an utterance that holds 2 and 4: the result is [2],
\* the 4 being dropped.
C38_Witness ==
    /\ Extracted
    /\ position_call.max_count = 3
    /\ \E i, j \in 1..Len(CallText) :
          i # j /\ CallText[i] = "2" /\ CallText[j] = "4"
    /\ position_call.refs = <<2>>

-----------------------------------------------------------------------------
(* Properties of the update of the context of a session.                    *)

\* C39: the clear signal is applied before the set signal: a result that
\* carries set_pending_record_action leaves the session with exactly that
\* Pending Action, whether it carries the clear signal or not, a result
\* that carries only clear_pending_record_action leaves it with none, and a
\* result that carries neither leaves the Pending Action as it was; the
\* console applies the same rule as the web front end.
C39_ClearBeforeSet ==
    stores.pc = "updated"
    => /\ stores.meta.set_pending_record_action.set
          => stores.state.pending_record_action = stores.meta.set_pending_record_action
       /\ (~stores.meta.set_pending_record_action.set
           /\ stores.meta.clear_pending_record_action)
          => stores.state.pending_record_action = NoPending
       /\ (~stores.meta.set_pending_record_action.set
           /\ ~stores.meta.clear_pending_record_action)
          => stores.state.pending_record_action = stores.before.pending_record_action
       /\ stores.state = ConsoleUpdateContext(stores.before, stores.meta)
       /\ stores.state = _update_context_state_from_meta(stores.before, stores.meta)

\* The web front end updated a session that had a pending like from a result
\* carrying both signals: the pending note of the result is the Pending
\* Action of the session.
C39_Witness ==
    /\ stores.pc = "updated"
    /\ stores.front = "app"
    /\ stores.before.pending_record_action.set
    /\ stores.before.pending_record_action.record_type = "like"
    /\ stores.meta.clear_pending_record_action
    /\ stores.meta.set_pending_record_action.set
    /\ stores.state.pending_record_action.record_type = "note"

====
